---- MODULE Spec2Model ----
(***************************************************************************)
(* Content marketing pipeline: the four stage agents (research, writer,    *)
(* social, scheduler), the fence-aware JSON extraction of the research and *)
(* writer stages, and the orchestrator ContentMarketingCrew.               *)
(*                                                                         *)
(* Python values are tagged records: [t |-> "dict", d |-> key -> value],   *)
(* [t |-> "list", l |-> sequence], [t |-> "str", s |-> text],              *)
(* [t |-> "int", n |-> number], [t |-> "none"].  A raised exception is the *)
(* value [t |-> "exc", cls |-> class, err |-> message]: an operator that   *)
(* models a try block yields it where the Python code would unwind.        *)
(* A model response is a sequence of tokens: FENCE is a code fence, "json" *)
(* the language tag, " " whitespace, "prose" any non-JSON text, and every  *)
(* other token is the text of one JSON value.                              *)
(***************************************************************************)
EXTENDS Integers, Sequences, FiniteSets, TLC

\* ------------------------------------------------------------------ bounds
\* Longest token sequence enumerated for the extraction specification.
MaxLen == 5
\* Number of weekdays (0 = Monday) the pipeline run may start on.
MaxStartDay == 2
\* Largest number of LinkedIn posts, and of Twitter posts, a schedule is
\* computed for.
MaxPosts == 4
\* Largest number of topics of a research result the compile step is applied
\* to.
MaxTopics == 4
\* Number of calls made on one task manager.
MaxCalls == 4
\* Seconds the clock may advance during one run of the program.
MaxClock == 2

\* ---------------------------------------------------------- Python values
None == [t |-> "none"]
Str(s) == [t |-> "str", s |-> s]
IntV(n) == [t |-> "int", n |-> n]
List(l) == [t |-> "list", l |-> l]
Dict(d) == [t |-> "dict", d |-> d]
EmptyD == [k \in {} |-> None]
Exc(cls, msg) == [t |-> "exc", cls |-> cls, err |-> msg]
IsExc(v) == v.t = "exc"
IsDict(v) == v.t = "dict"
\* A value that has not been produced yet (Python: the name is unbound).
Unset == [t |-> "unset"]

\* dict.keys()
Keys(v) == IF IsDict(v) THEN DOMAIN v.d ELSE {}
\* {**d, k: v}
Put(d, k, v) == [x \in (DOMAIN d) \cup {k} |-> IF x = k THEN v ELSE d[x]]
\* v.get(k, def); AttributeError when v is not a dict
Get(v, k, def) ==
  IF ~IsDict(v) THEN Exc("AttributeError", "no attribute get")
  ELSE IF k \in DOMAIN v.d THEN v.d[k] ELSE def
\* bool(v)
Truthy(v) ==
  CASE v.t = "dict" -> DOMAIN v.d # {}
    [] v.t = "list" -> Len(v.l) > 0
    [] v.t = "str" -> v.s # ""
    [] v.t = "int" -> v.n # 0
    [] OTHER -> FALSE
\* k in v; "typeerror" when v is not a container
Contains(v, k) ==
  CASE v.t = "dict" -> IF k \in DOMAIN v.d THEN "yes" ELSE "no"
    [] v.t = "list" -> IF \E i \in 1..Len(v.l) : v.l[i] = Str(k) THEN "yes" ELSE "no"
    [] v.t = "str" -> IF v.s = k THEN "yes" ELSE "no"
    [] OTHER -> "typeerror"

\* ------------------------------------------------------------- JSON texts
\* three backquotes
FENCE == "fence"
TAG == "json"
WS == " "
PROSE == "prose"
\* prose that contains the phrase "AI in Driving Digital Transformation"
AIPROSE == "prose AI in Driving Digital Transformation"

ResearchKeys == {"trending_topics", "market_insights", "recommended_focus"}
ArticleKeys == {"headline", "meta_description", "article_content", "word_count",
                "key_takeaways", "suggested_tags", "reading_time", "call_to_action"}
LinkedInKeys == {"linkedin_posts", "content_themes", "overall_strategy"}
TwitterKeys == {"twitter_posts", "thread_posts", "posting_strategy"}
OverviewKeys == {"start_date", "end_date", "total_posts", "strategy"}
ScheduleKeys == {"campaign_overview", "blog_schedule", "linkedin_schedule",
                 "twitter_schedule", "csv_export"}
LinkedInPostKeys == {"post_content", "character_count", "hashtags", "post_type",
                     "engagement_prediction", "call_to_action", "posting_tip"}
TwitterPostKeys == {"tweet_content", "character_count", "post_type", "hashtags",
                    "engagement_elements", "thread_position", "retweet_potential"}
CsvColumns == {"Content_Type", "Platform", "Publish_Date", "Publish_Time",
               "Day_of_Week", "Expected_Engagement", "Notes"}

\* One research topic candidate as the prompt of research_topics describes it.
Topic(title) ==
  Dict([title |-> Str(title), trending_reason |-> Str("reason"),
        target_audience |-> Str("audience"),
        content_angles |-> List(<<Str("angle1"), Str("angle2")>>),
        seo_score |-> IntV(8), urgency_level |-> Str("high")])
LinkedInPost(text, n, type, pred, cta, tip, tags) ==
  Dict([post_content |-> text, character_count |-> IntV(n), hashtags |-> tags,
        post_type |-> Str(type), engagement_prediction |-> Str(pred),
        call_to_action |-> Str(cta), posting_tip |-> Str(tip)])
Tweet(text, n, type, tags, elems, pot) ==
  Dict([tweet_content |-> text, character_count |-> IntV(n), post_type |-> Str(type),
        hashtags |-> tags, engagement_elements |-> elems, thread_position |-> None,
        retweet_potential |-> Str(pot)])
\* A date is the number of days after the day the run started on.
Date(off) == [t |-> "str", s |-> "date", off |-> off]
DayNames == <<"Monday", "Tuesday", "Wednesday", "Thursday", "Friday", "Saturday", "Sunday">>
\* strftime('%A') of the date off days after a day whose weekday is dow
DayName(dow, off) == Str(DayNames[((dow + off) % 7) + 1])
SchedEntry(i, off, time, day, type, why, eng) ==
  Dict([post_index |-> IntV(i), publish_date |-> Date(off), publish_time |-> Str(time),
        day_of_week |-> day, post_type |-> Str(type), rationale |-> Str(why),
        expected_engagement |-> Str(eng)])

\* The JSON values the model's responses are built from: the text of each
\* token, parsed.
JsonTokens == {"{research}", "{notopics}", "{badtopic}", "{article}", "{partial}", "{linkedin}",
               "{twitter}", "{schedule}", "{}", "{error}", "[1]", "null", "5"}
JsonVal(tok) ==
  CASE tok = "{research}" ->
         Dict([trending_topics |-> List(<<Topic("T1"), Topic("T2")>>),
               market_insights |-> Str("insights"),
               recommended_focus |-> Str("T2")])
    [] tok = "{notopics}" ->
         Dict([trending_topics |-> List(<<>>), market_insights |-> Str("insights"),
               recommended_focus |-> Str("nothing")])
    [] tok = "{badtopic}" ->
         Dict([trending_topics |-> List(<<Str("T1")>>),
               market_insights |-> Str("insights"), recommended_focus |-> Str("T1")])
    [] tok = "{article}" ->
         Dict([headline |-> Str("H"), meta_description |-> Str("meta"),
               article_content |-> Str("body"), word_count |-> IntV(900),
               key_takeaways |-> List(<<Str("k1"), Str("k2")>>),
               suggested_tags |-> List(<<Str("tag1")>>),
               reading_time |-> Str("5 min read"), call_to_action |-> Str("cta")])
    [] tok = "{partial}" ->
         Dict([meta_description |-> Str("meta"), word_count |-> IntV(450),
               headline |-> Str("")])
    [] tok = "{linkedin}" ->
         Dict([linkedin_posts |->
                 List(<<LinkedInPost(Str("p1"), 850, "educational", "high", "c", "t",
                                     List(<<Str("#a")>>)),
                        LinkedInPost(Str("p2"), 700, "promotional", "high", "c", "t",
                                     List(<<Str("#a")>>))>>),
               content_themes |-> List(<<Str("theme1")>>),
               overall_strategy |-> Str("strategy")])
    [] tok = "{twitter}" ->
         Dict([twitter_posts |->
                 List(<<Tweet(Str("t1"), 100, "single_tweet", List(<<Str("#a")>>),
                              List(<<Str("emoji")>>), "high"),
                        Tweet(Str("t2"), 100, "single_tweet", List(<<Str("#a")>>),
                              List(<<Str("emoji")>>), "high"),
                        Tweet(Str("t3"), 100, "single_tweet", List(<<Str("#a")>>),
                              List(<<Str("emoji")>>), "high")>>),
               thread_posts |-> List(<<>>),
               posting_strategy |-> Str("strategy")])
    [] tok = "{schedule}" ->
         Dict([campaign_overview |->
                 Dict([start_date |-> Date(0), end_date |-> Date(7),
                       total_posts |-> IntV(6), strategy |-> Str("model strategy")]),
               blog_schedule |->
                 Dict([publish_date |-> Date(1), publish_time |-> Str("08:00"),
                       day_of_week |-> Str("Monday"), rationale |-> Str("why"),
                       preparation_deadline |-> Date(0)]),
               linkedin_schedule |->
                 List(<<SchedEntry(1, 2, "10:00", Str("Wednesday"), "thought-leadership",
                                   "why", "high")>>),
               twitter_schedule |->
                 List(<<SchedEntry(1, 3, "18:00", Str("Friday"), "engagement",
                                   "why", "medium")>>),
               optimization_tips |-> List(<<Str("tip1")>>),
               success_metrics |-> List(<<Str("metric1")>>)])
    [] tok = "{}" -> Dict(EmptyD)
    [] tok = "{error}" -> Dict([error |-> Str("the model reports an error")])
    [] tok = "[1]" -> List(<<IntV(1)>>)
    [] tok = "null" -> None
    [] OTHER -> IntV(5)

Tokens == {FENCE, TAG, WS, PROSE, AIPROSE} \cup JsonTokens
\* Tokens whose text is a single character.
OneChar == {WS, "5"}

\* ------------------------------------------------------------- extraction
Min(S) == CHOOSE x \in S : \A y \in S : x <= y
\* content.find(FENCE, from): index of the first fence at or after position
\* from, 0 when there is none (Python: -1)
FindFence(content, from) ==
  LET hits == {i \in from..Len(content) : content[i] = FENCE}
  IN IF hits = {} THEN 0 ELSE Min(hits)
\* content.find(FENCE + "json"): index of the first fence that carries the tag
FindJsonFence(content) ==
  LET hits == {i \in 1..(Len(content) - 1) : content[i] = FENCE /\ content[i + 1] = TAG}
  IN IF hits = {} THEN 0 ELSE Min(hits)
\* text[:-1]: the text without its last character.  A one-character token
\* disappears; what is left of a longer token is not JSON any more.
DropLastChar(text) ==
  IF text = <<>> THEN <<>>
  ELSE LET front == SubSeq(text, 1, Len(text) - 1)
       IN IF text[Len(text)] \in OneChar THEN front ELSE Append(front, PROSE)
\* content[start:end], start being the first position kept and end the
\* result of find (0: not found, Python slices [start:-1])
Slice(content, start, end) ==
  IF end = 0 THEN DropLastChar(SubSeq(content, start, Len(content)))
  ELSE SubSeq(content, start, end - 1)
\* str.strip()
RECURSIVE LStrip(_)
LStrip(text) ==
  IF text # <<>> /\ Head(text) = WS THEN LStrip(Tail(text)) ELSE text
RECURSIVE RStrip(_)
RStrip(text) ==
  IF text # <<>> /\ text[Len(text)] = WS
  THEN RStrip(SubSeq(text, 1, Len(text) - 1)) ELSE text
Strip(text) == LStrip(RStrip(text))
\* json.loads(text): the value of the single JSON token of the text, white
\* space around it ignored; JSONDecodeError for anything else.
JsonLoads(text) ==
  LET c == Strip(text)
  IN IF Len(c) = 1 /\ c[1] \in JsonTokens THEN JsonVal(c[1])
     ELSE Exc("JSONDecodeError", "Expecting value")
\* (an extraction that tests for a plain fence before the tagged one)
ExtractPayload_plain_first(content) ==
  IF FindFence(content, 1) # 0 THEN
    LET start == FindFence(content, 1) + 1
        end == FindFence(content, start)
    IN Strip(Slice(content, start, end))
  ELSE content
\* The payload research_topics and write_blog_article hand to json.loads.
ExtractPayload(content) ==
  IF FindJsonFence(content) # 0 THEN
    LET start == FindJsonFence(content) + 2
        end == FindFence(content, start)
    IN Strip(Slice(content, start, end))
  ELSE IF FindFence(content, 1) # 0 THEN
    LET start == FindFence(content, 1) + 1
        end == FindFence(content, start)
    IN Strip(Slice(content, start, end))
  ELSE content

\* ----------------------------------------------------------------- agents
\* One call of llm.invoke: it raises (fault) or returns response.content.
Fault(msg) == [fault |-> TRUE, msg |-> msg, text |-> <<>>]
Reply(text) == [fault |-> FALSE, msg |-> "", text |-> text]
FaultMsg == "Connection error."
\* text as a Python string: empty or not, its tokens kept
RawStr(text) == [t |-> "str", s |-> IF text = <<>> THEN "" ELSE "raw", raw |-> text]
\* seq[:n]
Take(seq, n) == SubSeq(seq, 1, IF n < Len(seq) THEN n ELSE Len(seq))
Max(a, b) == IF a > b THEN a ELSE b
\* an f-string built from a fixed text and the values it interpolates
Fmt(text, args) == [t |-> "str", s |-> text, args |-> args]

\* TopicResearchAgent.research_topics: the except Exception clause
ResearchErrorRecord(msg) ==
  Dict([trending_topics |-> List(<<>>),
        market_insights |-> Fmt("Error occurred during research: ", <<Str(msg)>>),
        recommended_focus |-> Str("Please check API configuration"),
        error |-> Str(msg)])
\* TopicResearchAgent.research_topics: the except json.JSONDecodeError clause
ResearchFallback(text) ==
  IF \E i \in 1..Len(text) : text[i] = AIPROSE THEN
    Dict([trending_topics |->
            List(<<Dict([title |-> Str("The Role of AI in Driving Digital Transformation"),
                         trending_reason |-> Str("Businesses are increasingly using AI"),
                         target_audience |-> Str("Business leaders, IT professionals"),
                         content_angles |-> List(<<Str("AI implementation strategies"),
                                                   Str("Digital transformation best practices"),
                                                   Str("ROI of AI in business")>>),
                         seo_score |-> IntV(9), urgency_level |-> Str("high")])>>),
          market_insights |-> Str("High interest in AI-driven business transformation"),
          recommended_focus |-> Str("Focus on AI in Digital Transformation")])
  ELSE
    Dict([trending_topics |->
            List(<<Dict([title |-> Str("AI and Digital Transformation in Modern Business"),
                         trending_reason |-> Str("Growing adoption of AI technologies"),
                         target_audience |-> Str("Business professionals and decision makers"),
                         content_angles |-> List(<<Str("AI implementation"),
                                                   Str("Business automation"),
                                                   Str("Digital strategy")>>),
                         seo_score |-> IntV(8), urgency_level |-> Str("high")])>>),
          market_insights |-> Str("Strong market interest in AI and automation solutions"),
          recommended_focus |-> Str("AI and digital transformation topics")])
\* The try block of research_topics: its value, or the exception it raises.
ResearchTry(call) ==
  IF call.fault THEN Exc("Exception", call.msg)
  ELSE LET result == JsonLoads(ExtractPayload(call.text))
       IN IF IsExc(result) /\ result.cls = "JSONDecodeError"
          THEN ResearchFallback(call.text)
          ELSE result
research_topics(call) ==
  LET r == ResearchTry(call)
  IN IF IsExc(r) THEN ResearchErrorRecord(r.err) ELSE r

\* BlogWriterAgent.write_blog_article: the except Exception clause
ArticleErrorRecord(msg) ==
  Dict([headline |-> Str("Content Generation Error"),
        meta_description |-> Str("An error occurred during content generation"),
        article_content |-> Fmt("Error generating blog content: ", <<Str(msg)>>),
        word_count |-> IntV(0),
        key_takeaways |-> List(<<Str("Check API configuration and try again")>>),
        suggested_tags |-> List(<<Str("error")>>),
        reading_time |-> Str("0 min read"),
        call_to_action |-> Str("Please contact support"),
        error |-> Str(msg)])
\* BlogWriterAgent.write_blog_article: the except json.JSONDecodeError clause
ArticleFallback(topic_title, target_audience, word_count, text) ==
  Dict([headline |-> topic_title,
        meta_description |-> Fmt("Learn about {} and its impact on {}",
                                 <<topic_title, target_audience>>),
        article_content |-> RawStr(text),
        word_count |-> IntV(word_count),
        key_takeaways |-> List(<<Str("Manual extraction needed")>>),
        suggested_tags |-> List(<<Str("content"), Str("marketing"), Str("business")>>),
        reading_time |-> Str("5 min read"),
        call_to_action |-> Str("Learn more about our services"),
        parsing_note |-> Str("Raw content provided due to JSON parsing issue")])
\* (a clamp without its lower limit)
ClampWordCount_no_floor(target) == IF target < 600 THEN target ELSE 600
\* max(300, min(600, target_word_count))
ClampWordCount(target) == Max(300, IF target < 600 THEN target ELSE 600)
\* "N min read"
ReadingTime(n) == Fmt("{} min read", <<IntV(n)>>)
\* The validation of a parsed article: headline, article_content and
\* reading_time are filled in when absent or empty.
Backfill(result, topic_title, word_count) ==
  LET r1 == IF ~Truthy(Get(result, "headline", None))
            THEN Put(result.d, "headline", topic_title) ELSE result.d
      r2 == IF ~Truthy(Get(Dict(r1), "article_content", None))
            THEN Put(r1, "article_content",
                     Str("Content generation failed. Please try again."))
            ELSE r1
      estimated_words == Get(Dict(r2), "word_count", IntV(word_count))
      r3 == IF ~Truthy(Get(Dict(r2), "reading_time", None))
            THEN Put(r2, "reading_time", ReadingTime(Max(1, estimated_words.n \div 200)))
            ELSE r2
  IN Dict(r3)
\* The try block of write_blog_article.  llm is the outcome the model call
\* would have; called tells whether the call is reached.
ArticleTry(topic_data, target_word_count, call) ==
  LET word_count == ClampWordCount(target_word_count)
      topic_title == Get(topic_data, "title", Str("Trending Industry Topic"))
      target_audience == Get(topic_data, "target_audience", Str("business professionals"))
  IN IF IsExc(topic_title) THEN topic_title
     ELSE IF call.fault THEN Exc("Exception", call.msg)
     ELSE LET result == JsonLoads(ExtractPayload(call.text))
          IN IF IsExc(result)
             THEN ArticleFallback(topic_title, target_audience, word_count, call.text)
             ELSE IF ~IsDict(result) THEN Get(result, "headline", None)
             ELSE Backfill(result, topic_title, word_count)
write_blog_article(topic_data, target_word_count, call) ==
  LET r == ArticleTry(topic_data, target_word_count, call)
  IN IF IsExc(r) THEN ArticleErrorRecord(r.err) ELSE r
\* write_blog_article reaches llm.invoke only when reading the topic raised
\* nothing.
WriterCallsModel(topic_data) == IsDict(topic_data)
\* What the prompt of write_blog_article interpolates: the title and the
\* audience read from the topic, and the clamped word count.
WriterPrompt(topic_data, target_word_count) ==
  [topic_title |-> Get(topic_data, "title", Str("Trending Industry Topic")),
   word_count |-> ClampWordCount(target_word_count),
   target_audience |-> Get(topic_data, "target_audience", Str("business professionals"))]

\* SocialPostAgent.generate_linkedin_posts: the except Exception clause
LinkedInErrorRecord(msg) ==
  Dict([linkedin_posts |->
          List(<<LinkedInPost(Fmt("Error generating LinkedIn content: ", <<Str(msg)>>), 0,
                              "error", "none", "Please try again",
                              "Check API configuration", List(<<Str("#error")>>))>>),
        content_themes |-> List(<<Str("error")>>),
        overall_strategy |-> Str("Fix configuration and retry"),
        error |-> Str(msg)])
\* SocialPostAgent.generate_linkedin_posts: the except json.JSONDecodeError clause
LinkedInFallback(text) ==
  Dict([linkedin_posts |->
          List(<<LinkedInPost(RawStr(text), Len(text), "general", "medium",
                              "What do you think?", "Review and edit before posting",
                              List(<<Str("#contentmarketing"), Str("#business"),
                                     Str("#insights")>>))>>),
        content_themes |-> List(<<Str("business insights")>>),
        overall_strategy |-> Str("Manual review recommended due to parsing issue"),
        parsing_note |-> Str("Raw content provided")])
\* The try block of generate_linkedin_posts; the response goes to json.loads
\* as it is.
LinkedInTry(blog_data, call) ==
  LET headline == Get(blog_data, "headline", Str("Industry Insights"))
      key_takeaways == Get(blog_data, "key_takeaways", List(<<>>))
  IN IF IsExc(headline) THEN headline
     ELSE IF call.fault THEN Exc("Exception", call.msg)
     ELSE LET result == JsonLoads(call.text)
          IN IF IsExc(result) THEN LinkedInFallback(call.text)
             ELSE IF ~IsDict(result) THEN Get(result, "linkedin_posts", None)
             ELSE IF ~Truthy(Get(result, "linkedin_posts", None))
             THEN Dict(Put(result.d, "linkedin_posts",
                    List(<<LinkedInPost(
                             Fmt("Just published: {} {} What are your thoughts?",
                                 <<headline, List(Take(key_takeaways.l, 3))>>),
                             200, "promotional", "medium", "Share your thoughts below",
                             "Post during business hours for better reach",
                             List(<<Str("#contentmarketing"), Str("#business")>>))>>)))
             ELSE result
generate_linkedin_posts(blog_data, call) ==
  LET r == LinkedInTry(blog_data, call)
  IN IF IsExc(r) THEN LinkedInErrorRecord(r.err) ELSE r

\* SocialPostAgent.generate_twitter_posts: the except Exception clause
TwitterErrorRecord(msg) ==
  Dict([twitter_posts |->
          List(<<Tweet(Fmt("Error generating Twitter content: ", <<Str(msg)>>), 0,
                       "error", List(<<Str("#error")>>), List(<<>>), "none")>>),
        thread_posts |-> List(<<>>),
        posting_strategy |-> Str("Fix configuration and retry"),
        error |-> Str(msg)])
\* (a fallback that leaves thread_posts out)
TwitterFallback_no_threads(key_takeaways) ==
  Dict([twitter_posts |-> List(<<>>),
        posting_strategy |-> Str("Manual review recommended - parsing issue occurred"),
        parsing_note |-> Str("Fallback content generated")])
\* SocialPostAgent.generate_twitter_posts: the except json.JSONDecodeError
\* clause, one tweet for each of the first three key takeaways
TwitterFallback(key_takeaways) ==
  LET first == Take(key_takeaways, 3)
  IN Dict([twitter_posts |->
             List([i \in 1..Len(first) |->
                     Tweet(Fmt("{} #insights #business", <<first[i]>>), 1,
                           "single_tweet", List(<<Str("#insights"), Str("#business")>>),
                           List(<<Str("emoji")>>), "medium")]),
           thread_posts |-> List(<<>>),
           posting_strategy |-> Str("Manual review recommended - parsing issue occurred"),
           parsing_note |-> Str("Fallback content generated")])
\* The try block of generate_twitter_posts
TwitterTry(blog_data, call) ==
  LET headline == Get(blog_data, "headline", Str("Industry Insights"))
      key_takeaways == Get(blog_data, "key_takeaways", List(<<>>))
  IN IF IsExc(headline) THEN headline
     ELSE IF call.fault THEN Exc("Exception", call.msg)
     ELSE LET result == JsonLoads(call.text)
          IN IF IsExc(result) THEN TwitterFallback(key_takeaways.l)
             ELSE IF ~IsDict(result) THEN Get(result, "twitter_posts", None)
             ELSE IF ~Truthy(Get(result, "twitter_posts", None))
             THEN Dict(Put(result.d, "twitter_posts",
                    List(<<Tweet(Fmt("New post: {}... Key insights inside", <<headline>>),
                                 120, "single_tweet",
                                 List(<<Str("#contentmarketing"), Str("#business")>>),
                                 List(<<Str("emoji"), Str("call_to_action")>>),
                                 "medium")>>)))
             ELSE result
generate_twitter_posts(blog_data, call) ==
  LET r == TwitterTry(blog_data, call)
  IN IF IsExc(r) THEN TwitterErrorRecord(r.err) ELSE r

\* SchedulerAgent._generate_csv_data: one row for the blog entry when there
\* is one, then one row per LinkedIn entry, then one per Twitter entry
CsvRow(type, platform, entry, engagement) ==
  Dict([Content_Type |-> type, Platform |-> Str(platform),
        Publish_Date |-> Get(entry, "publish_date", Str("")),
        Publish_Time |-> Get(entry, "publish_time", Str("")),
        Day_of_Week |-> Get(entry, "day_of_week", Str("")),
        Expected_Engagement |-> engagement,
        Notes |-> Get(entry, "rationale", Str(""))])
PostRows(posts, label, platform) ==
  [i \in 1..Len(posts) |->
     CsvRow(Fmt(label, <<Get(posts[i], "post_index", Str(""))>>), platform, posts[i],
            Get(posts[i], "expected_engagement", Str("Medium")))]
\* (a table that has a blog row whether or not there is a blog entry)
generate_csv_data_blog_always(schedule_data) ==
  LET blog == Get(schedule_data, "blog_schedule", Dict(EmptyD))
      linkedin == Get(schedule_data, "linkedin_schedule", List(<<>>)).l
      twitter == Get(schedule_data, "twitter_schedule", List(<<>>)).l
  IN List(<<CsvRow(Str("Blog Post"), "Website", blog, Str("High"))>>
            \o PostRows(linkedin, "LinkedIn Post {}", "LinkedIn")
            \o PostRows(twitter, "Twitter Post {}", "Twitter/X"))
generate_csv_data(schedule_data) ==
  LET blog == Get(schedule_data, "blog_schedule", None)
      blog_rows == IF Truthy(blog)
                   THEN <<CsvRow(Str("Blog Post"), "Website", blog, Str("High"))>>
                   ELSE <<>>
      linkedin == Get(schedule_data, "linkedin_schedule", List(<<>>)).l
      twitter == Get(schedule_data, "twitter_schedule", List(<<>>)).l
  IN List(blog_rows \o PostRows(linkedin, "LinkedIn Post {}", "LinkedIn")
                    \o PostRows(twitter, "Twitter Post {}", "Twitter/X"))

\* The days after the start the fallback schedule publishes on.
linkedin_days == <<3, 5>>
\* (Twitter days of which one is a LinkedIn day too)
twitter_days_on_linkedin_day == <<2, 3, 6>>
twitter_days == <<2, 4, 6>>
\* SchedulerAgent._generate_fallback_schedule; dow is the weekday of
\* start_date (0 = Monday)
generate_fallback_schedule(dow, duration, num_linkedin, num_twitter) ==
  LET nl == IF num_linkedin < Len(linkedin_days) THEN num_linkedin ELSE Len(linkedin_days)
      nt == IF num_twitter < Len(twitter_days) THEN num_twitter ELSE Len(twitter_days)
      schedule ==
        [campaign_overview |->
           Dict([start_date |-> Date(0), end_date |-> Date(duration),
                 total_posts |-> IntV(num_linkedin + num_twitter + 1),
                 strategy |-> Str("Standard weekly distribution - manual optimization recommended")]),
         blog_schedule |->
           Dict([publish_date |-> Date(1), publish_time |-> Str("09:00"),
                 day_of_week |-> Str("Tuesday"),
                 rationale |-> Str("Tuesday morning for B2B audience engagement"),
                 preparation_deadline |-> Fmt("{} 17:00", <<Date(0)>>)]),
         linkedin_schedule |->
           List([i \in 1..nl |->
                   SchedEntry(i, linkedin_days[i], "10:00", DayName(dow, linkedin_days[i]),
                              "professional", "Business hours for professional audience",
                              "medium")]),
         twitter_schedule |->
           List([i \in 1..nt |->
                   SchedEntry(i, twitter_days[i], "18:00", DayName(dow, twitter_days[i]),
                              "engagement", "Evening hours for higher Twitter engagement",
                              "medium")]),
         optimization_tips |-> List(<<Str("Post blog content early in the week"),
                                      Str("Schedule LinkedIn during business hours"),
                                      Str("Use Twitter for evening engagement")>>),
         success_metrics |-> List(<<Str("Engagement rate"), Str("Click-through rate"),
                                    Str("Share count")>>)]
  IN Dict(Put(schedule, "csv_export", generate_csv_data(Dict(schedule))))

\* (an error record that reports the fault in the overview only)
ScheduleErrorRecord_no_error_key(msg) ==
  Dict([campaign_overview |->
          Dict([start_date |-> Date(0), error |-> Str(msg), total_posts |-> IntV(0),
                strategy |-> Str("Manual scheduling required due to error")]),
        blog_schedule |-> Dict(EmptyD),
        linkedin_schedule |-> List(<<>>),
        twitter_schedule |-> List(<<>>),
        optimization_tips |-> List(<<Str("Check API configuration"), Str("Retry scheduling")>>),
        success_metrics |-> List(<<Str("Manual tracking required")>>)])
\* SchedulerAgent.generate_posting_schedule: the except Exception clause
ScheduleErrorRecord(msg) ==
  Dict([campaign_overview |->
          Dict([start_date |-> Date(0), error |-> Str(msg), total_posts |-> IntV(0),
                strategy |-> Str("Manual scheduling required due to error")]),
        blog_schedule |-> Dict(EmptyD),
        linkedin_schedule |-> List(<<>>),
        twitter_schedule |-> List(<<>>),
        optimization_tips |-> List(<<Str("Check API configuration"), Str("Retry scheduling")>>),
        success_metrics |-> List(<<Str("Manual tracking required")>>),
        error |-> Str(msg)])
\* The try block of generate_posting_schedule; the response goes to
\* json.loads as it is.
ScheduleTry(content_data, dow, campaign_duration, call) ==
  LET linkedin_content == Get(content_data, "linkedin_content", Dict(EmptyD))
      twitter_content == Get(content_data, "twitter_content", Dict(EmptyD))
      linkedin_posts == Get(linkedin_content, "linkedin_posts", List(<<>>))
      twitter_posts == Get(twitter_content, "twitter_posts", List(<<>>))
  IN IF IsExc(linkedin_posts) THEN linkedin_posts
     ELSE IF IsExc(twitter_posts) THEN twitter_posts
     ELSE LET num_linkedin == Len(linkedin_posts.l)
              num_twitter == Len(twitter_posts.l)
          IN IF call.fault THEN Exc("Exception", call.msg)
             ELSE LET result == JsonLoads(call.text)
                  IN IF IsExc(result)
                     THEN generate_fallback_schedule(dow, campaign_duration,
                                                     num_linkedin, num_twitter)
                     ELSE IF ~IsDict(result) THEN Get(result, "campaign_overview", None)
                     ELSE LET r1 == IF ~Truthy(Get(result, "campaign_overview", None))
                                    THEN Put(result.d, "campaign_overview",
                                           Dict([start_date |-> Date(0),
                                                 end_date |-> Date(campaign_duration),
                                                 total_posts |->
                                                   IntV(num_linkedin + num_twitter + 1),
                                                 strategy |-> Str("Balanced cross-platform content distribution")]))
                                    ELSE result.d
                          IN Dict(Put(r1, "csv_export", generate_csv_data(Dict(r1))))
\* (a scheduler without its except Exception clause)
generate_posting_schedule_uncaught(content_data, dow, campaign_duration, call) ==
  ScheduleTry(content_data, dow, campaign_duration, call)
generate_posting_schedule(content_data, dow, campaign_duration, call) ==
  LET r == ScheduleTry(content_data, dow, campaign_duration, call)
  IN IF IsExc(r) THEN ScheduleErrorRecord(r.err) ELSE r

\* ----------------------------------------------------------- orchestrator
WriteMsg == "Permission denied"
\* What one stage method of ContentMarketingCrew did: the value it returned
\* (or the exception it raised), the files it wrote completely, the model
\* calls it made, and whether one of its writes failed.
Outcome(val, written, made, wfail) ==
  [val |-> val, files |-> written, calls |-> made, wfail |-> wfail]
ModelCall(agent, arg, call) == [agent |-> agent, arg |-> arg, call |-> call]
\* {"error": str(e)}
StageError(msg) == Dict([error |-> Str(msg)])

\* (a research stage that returns its result without saving it)
run_topic_research_no_save(call, wf) ==
  Outcome(research_topics(call), {}, <<ModelCall("research", None, call)>>, FALSE)
\* ContentMarketingCrew._run_topic_research; wf: writing the JSON file fails
run_topic_research(call, wf) ==
  LET results == research_topics(call)
      made == <<ModelCall("research", None, call)>>
  IN IF wf THEN Outcome(StageError(WriteMsg), {}, made, TRUE)
     ELSE Outcome(results, {"topic_research.json"}, made, FALSE)

\* (a blog stage that writes about the last topic of the list)
run_blog_writing_last_topic(topic_results, word_count, call, wf_json, wf_md) ==
  LET trending_topics == Get(topic_results, "trending_topics", List(<<>>))
  IN IF IsExc(trending_topics) THEN Outcome(StageError(trending_topics.err), {}, <<>>, FALSE)
     ELSE IF ~Truthy(trending_topics)
     THEN Outcome(StageError("No trending topics available for blog writing"),
                  {}, <<>>, FALSE)
     ELSE LET top_topic == trending_topics.l[Len(trending_topics.l)]
              results == write_blog_article(top_topic, word_count, call)
              made == IF WriterCallsModel(top_topic)
                      THEN <<ModelCall("writer", WriterPrompt(top_topic, word_count), call)>>
                      ELSE <<>>
          IN IF wf_json THEN Outcome(StageError(WriteMsg), {}, made, TRUE)
             ELSE IF Truthy(Get(results, "article_content", None))
             THEN IF wf_md
                  THEN Outcome(StageError(WriteMsg), {"blog_article.json"}, made, TRUE)
                  ELSE Outcome(results, {"blog_article.json", "blog_article.md"},
                               made, FALSE)
             ELSE Outcome(results, {"blog_article.json"}, made, FALSE)
\* (a blog stage that writes about a default topic when research found none)
run_blog_writing_default_topic(topic_results, word_count, call, wf_json, wf_md) ==
  LET trending_topics == Get(topic_results, "trending_topics", List(<<>>))
  IN IF IsExc(trending_topics) THEN Outcome(StageError(trending_topics.err), {}, <<>>, FALSE)
     ELSE LET top_topic == IF ~Truthy(trending_topics) THEN Dict(EmptyD)
                           ELSE trending_topics.l[1]
              results == write_blog_article(top_topic, word_count, call)
              made == IF WriterCallsModel(top_topic)
                      THEN <<ModelCall("writer", WriterPrompt(top_topic, word_count), call)>>
                      ELSE <<>>
          IN IF wf_json THEN Outcome(StageError(WriteMsg), {}, made, TRUE)
             ELSE IF Truthy(Get(results, "article_content", None))
             THEN IF wf_md
                  THEN Outcome(StageError(WriteMsg), {"blog_article.json"}, made, TRUE)
                  ELSE Outcome(results, {"blog_article.json", "blog_article.md"},
                               made, FALSE)
             ELSE Outcome(results, {"blog_article.json"}, made, FALSE)
\* ContentMarketingCrew._run_blog_writing; wf_json, wf_md: writing the JSON
\* file or the Markdown file fails
run_blog_writing(topic_results, word_count, call, wf_json, wf_md) ==
  LET trending_topics == Get(topic_results, "trending_topics", List(<<>>))
  IN IF IsExc(trending_topics) THEN Outcome(StageError(trending_topics.err), {}, <<>>, FALSE)
     ELSE IF ~Truthy(trending_topics)
     THEN Outcome(StageError("No trending topics available for blog writing"),
                  {}, <<>>, FALSE)
     ELSE LET top_topic == trending_topics.l[1]
              results == write_blog_article(top_topic, word_count, call)
              made == IF WriterCallsModel(top_topic)
                      THEN <<ModelCall("writer", WriterPrompt(top_topic, word_count), call)>>
                      ELSE <<>>
          IN IF wf_json THEN Outcome(StageError(WriteMsg), {}, made, TRUE)
             ELSE IF Truthy(Get(results, "article_content", None))
             THEN IF wf_md
                  THEN Outcome(StageError(WriteMsg), {"blog_article.json"}, made, TRUE)
                  ELSE Outcome(results, {"blog_article.json", "blog_article.md"},
                               made, FALSE)
             ELSE Outcome(results, {"blog_article.json"}, made, FALSE)

\* ContentMarketingCrew._run_social_media_creation
run_social_media_creation(blog_results, linkedin_call, twitter_call, wf) ==
  LET linkedin_results == generate_linkedin_posts(blog_results, linkedin_call)
      twitter_results == generate_twitter_posts(blog_results, twitter_call)
      headline == Get(blog_results, "headline", Str("Industry Insights"))
      made == <<ModelCall("linkedin", headline, linkedin_call),
                ModelCall("twitter", headline, twitter_call)>>
      social_results ==
        Dict([linkedin_posts |-> linkedin_results,
              twitter_posts |-> twitter_results,
              campaign_summary |->
                Dict([total_linkedin_posts |->
                        IntV(Len(Get(linkedin_results, "linkedin_posts", List(<<>>)).l)),
                      total_twitter_posts |->
                        IntV(Len(Get(twitter_results, "twitter_posts", List(<<>>)).l)),
                      content_themes |->
                        List(Get(linkedin_results, "content_themes", List(<<>>)).l \o
                             Get(twitter_results, "content_themes", List(<<>>)).l)])])
  IN IF wf THEN Outcome(StageError(WriteMsg), {}, made, TRUE)
     ELSE Outcome(social_results, {"social_posts.json"}, made, FALSE)

\* ContentMarketingCrew._run_scheduling with _save_csv_schedule, which only
\* warns when the CSV file cannot be written
run_scheduling(content_data, dow, call, wf_json, wf_csv) ==
  LET results == generate_posting_schedule(content_data, dow, 7, call)
      made == <<ModelCall("scheduler", Get(content_data, "headline", Str("Blog Post")), call)>>
  IN IF wf_json THEN Outcome(StageError(WriteMsg), {}, made, TRUE)
     ELSE IF Truthy(Get(results, "csv_export", None))
     THEN IF wf_csv
          THEN Outcome(results, {"posting_schedule.json"}, made, TRUE)
          ELSE Outcome(results, {"posting_schedule.json", "posting_schedule.csv"},
                       made, FALSE)
     ELSE Outcome(results, {"posting_schedule.json"}, made, FALSE)

\* (a compile step that counts the LinkedIn posts only)
compile_final_campaign_linkedin_only(topic_results, blog_results, social_results, schedule_results) ==
  Dict([campaign_metadata |->
          Dict([generated_at |-> Str("now"), pipeline_version |-> Str("1.0.0"),
                status |-> Str("completed")]),
        topic_research |-> topic_results,
        blog_article |-> blog_results,
        social_media |-> social_results,
        posting_schedule |-> schedule_results,
        campaign_summary |->
          Dict([total_content_pieces |->
                  IntV(1 + Len(Get(Get(social_results, "linkedin_posts", Dict(EmptyD)),
                                   "linkedin_posts", List(<<>>)).l)),
                estimated_reach |-> Str("Varies by audience size and engagement"),
                campaign_duration |->
                  Get(Get(schedule_results, "campaign_overview", Dict(EmptyD)),
                      "end_date", Str("Unknown")),
                key_topics |->
                  IF Truthy(topic_results)
                  THEN List(Take(Get(topic_results, "trending_topics", List(<<>>)).l, 3))
                  ELSE List(<<>>),
                success_metrics |-> Get(schedule_results, "success_metrics", List(<<>>))])])
\* ContentMarketingCrew._compile_final_campaign
compile_final_campaign(topic_results, blog_results, social_results, schedule_results) ==
  Dict([campaign_metadata |->
          Dict([generated_at |-> Str("now"), pipeline_version |-> Str("1.0.0"),
                status |-> Str("completed")]),
        topic_research |-> topic_results,
        blog_article |-> blog_results,
        social_media |-> social_results,
        posting_schedule |-> schedule_results,
        campaign_summary |->
          Dict([total_content_pieces |->
                  IntV(1 + Len(Get(Get(social_results, "linkedin_posts", Dict(EmptyD)),
                                   "linkedin_posts", List(<<>>)).l)
                         + Len(Get(Get(social_results, "twitter_posts", Dict(EmptyD)),
                                   "twitter_posts", List(<<>>)).l)),
                estimated_reach |-> Str("Varies by audience size and engagement"),
                campaign_duration |->
                  Get(Get(schedule_results, "campaign_overview", Dict(EmptyD)),
                      "end_date", Str("Unknown")),
                key_topics |->
                  IF Truthy(topic_results)
                  THEN List(Take(Get(topic_results, "trending_topics", List(<<>>)).l, 3))
                  ELSE List(<<>>),
                success_metrics |-> Get(schedule_results, "success_metrics", List(<<>>))])])

\* ContentMarketingCrew._save_campaign_files: it has no try block, a failed
\* write raises
save_campaign_files(campaign, wf_json, wf_txt) ==
  IF wf_json THEN Outcome(Exc("OSError", WriteMsg), {}, <<>>, TRUE)
  ELSE IF wf_txt THEN Outcome(Exc("OSError", WriteMsg), {"complete_campaign.json"}, <<>>, TRUE)
  ELSE Outcome(None, {"complete_campaign.json", "campaign_summary.txt"}, <<>>, FALSE)

\* (a stage check that only tests the result for emptiness)
StageCheck_no_error_test(result) ==
  IF ~Truthy(result) THEN "failed"
  ELSE IF Contains(result, "error") = "typeerror" THEN "raised"
  ELSE "ok"
\* The test run_complete_pipeline applies to each stage result:
\* not result or 'error' in result
StageCheck(result) ==
  IF ~Truthy(result) THEN "failed"
  ELSE IF Contains(result, "error") = "typeerror" THEN "raised"
  ELSE IF Contains(result, "error") = "yes" THEN "failed"
  ELSE "ok"
\* {"error": <stage> failed, "details": result}
FailureRecord(msg, details) == Dict([error |-> Str(msg), details |-> details])
\* {"error": "Pipeline execution failed: ...", "timestamp": ...}
PipelineErrorRecord(msg) ==
  Dict([error |-> Fmt("Pipeline execution failed: ", <<Str(msg)>>),
        timestamp |-> Str("now")])
\* (a pipeline without the clause below: the exception reaches the caller)
PipelineExcept_reraise(e) == e
\* The except Exception clause of run_complete_pipeline
PipelineExcept(e) == PipelineErrorRecord(e.err)

\* ------------------------------------------------------------------ inputs
\* The texts the model may answer with.
Fenced(tok) == <<PROSE, FENCE, TAG, WS, tok, WS, FENCE, PROSE>>
Common == {<<>>, <<PROSE>>, <<"{}">>, <<"{error}">>, <<"[1]">>, <<"null">>, <<"5">>}
Responses(agent) ==
  CASE agent = "research" ->
         Common \cup {<<"{research}">>, Fenced("{research}"), <<"{notopics}">>,
                      <<"{badtopic}">>, <<"{partial}">>, <<AIPROSE>>,
                      <<FENCE, WS, "{research}", FENCE>>,
                      <<FENCE, TAG, WS, "{research}", WS>>}
    [] agent = "writer" ->
         Common \cup {<<"{article}">>, Fenced("{article}"), <<"{partial}">>,
                      <<FENCE, TAG, "{article}">>}
    [] agent = "linkedin" -> Common \cup {<<"{linkedin}">>, Fenced("{linkedin}")}
    [] agent = "twitter" -> Common \cup {<<"{twitter}">>, Fenced("{twitter}")}
    [] OTHER -> Common \cup {<<"{schedule}">>, Fenced("{schedule}")}
\* The outcomes of one model call.
Calls(agent) == {Fault(FaultMsg)} \cup {Reply(text) : text \in Responses(agent)}
\* The word counts run_complete_pipeline is called with.
WordCounts == {100, 450, 700}
\* The weekdays the run starts on.
StartDays == 0..(MaxStartDay - 1)

\* ------------------------------------------------------------------- state
VARIABLES
  pc,               \* where run_complete_pipeline is: the next stage, or "done"
  word_count,       \* the word_count argument
  topic_results,    \* the local variables of run_complete_pipeline
  blog_results,
  social_results,
  schedule_results,
  ret,              \* the value returned to the caller, or the exception raised
  started,          \* the stage methods called so far, in order
  calls,            \* the model calls made so far: agent, argument, fault
  files,            \* the files written completely
  wfailed,          \* a file write has failed
  fin,              \* pure operations: the operation and its arguments
  fout,             \* pure operations: the result
  now,              \* the clock: the seconds since the program started
  tasks,            \* ContentMarketingTasks.tasks: the list object it refers to
  heap              \* the list objects created so far, each with its elements

vars == <<pc, word_count, topic_results, blog_results, social_results,
          schedule_results, ret, started, calls, files, wfailed, fin, fout,
          now, tasks, heap>>

\* ContentMarketingTasks.__init__: self.tasks = [], the first list object
NewTasks ==
  /\ tasks = 1
  /\ heap = <<<<>>>>

\* How a model call ended, as the agent that made it sees it: the call
\* raised ("fault"), json.loads raised on the payload ("unparseable"), or it
\* returned a key-value record ("record") or another JSON value ("nonrecord").
ResponseKind(agent, call) ==
  IF call.fault THEN "fault"
  ELSE LET v == JsonLoads(IF agent \in {"research", "writer"}
                          THEN ExtractPayload(call.text) ELSE call.text)
       IN IF IsExc(v) THEN "unparseable" ELSE IF IsDict(v) THEN "record" ELSE "nonrecord"
\* What the history keeps of a model call.
Made(made) == [i \in 1..Len(made) |->
                 [agent |-> made[i].agent, arg |-> made[i].arg,
                  kind |-> ResponseKind(made[i].agent, made[i].call)]]

Init ==
  /\ pc = "research"
  /\ word_count \in WordCounts
  /\ topic_results = Unset
  /\ blog_results = Unset
  /\ social_results = Unset
  /\ schedule_results = Unset
  /\ ret = Unset
  /\ started = <<>>
  /\ calls = <<>>
  /\ files = {}
  /\ wfailed = FALSE
  /\ fin = Unset
  /\ fout = Unset
  /\ now = 0
  /\ NewTasks

\* (a pipeline whose failure branches lack the return statement)
AfterStage_no_return(stage, o, next, message) ==
  /\ started' = Append(started, stage)
  /\ calls' = calls \o Made(o.calls)
  /\ files' = files \cup o.files
  /\ wfailed' = (wfailed \/ o.wfail)
  /\ pc' = next
  /\ ret' = ret
\* The stage's outcome is recorded, then the stage check decides: the next
\* stage, the failure record of this stage, or the except clause of
\* run_complete_pipeline.
AfterStage(stage, o, next, message) ==
  /\ started' = Append(started, stage)
  /\ calls' = calls \o Made(o.calls)
  /\ files' = files \cup o.files
  /\ wfailed' = (wfailed \/ o.wfail)
  /\ pc' = IF StageCheck(o.val) = "ok" THEN next ELSE "done"
  /\ ret' = CASE StageCheck(o.val) = "ok" -> ret
              [] StageCheck(o.val) = "failed" -> FailureRecord(message, o.val)
              [] OTHER -> PipelineExcept(Exc("TypeError", "argument of type is not iterable"))

\* Step 1 of run_complete_pipeline
Research ==
  /\ pc = "research"
  /\ \E call \in Calls("research"), wf \in BOOLEAN :
       LET o == run_topic_research(call, wf)
       IN /\ topic_results' = o.val
          /\ AfterStage("research", o, "write", "Topic research failed")
  /\ UNCHANGED <<word_count, blog_results, social_results, schedule_results, fin, fout, now, tasks, heap>>

\* Step 2 of run_complete_pipeline
Write ==
  /\ pc = "write"
  /\ \E call \in Calls("writer"), wf_json \in BOOLEAN, wf_md \in BOOLEAN :
       LET o == run_blog_writing(topic_results, word_count, call, wf_json, wf_md)
       IN /\ blog_results' = o.val
          /\ AfterStage("blog", o, "social", "Blog writing failed")
  /\ UNCHANGED <<word_count, topic_results, social_results, schedule_results, fin, fout, now, tasks, heap>>

\* Step 3 of run_complete_pipeline
Socialize ==
  /\ pc = "social"
  /\ \E linkedin_call \in Calls("linkedin"), twitter_call \in Calls("twitter"),
        wf \in BOOLEAN :
       LET o == run_social_media_creation(blog_results, linkedin_call, twitter_call, wf)
       IN /\ social_results' = o.val
          /\ AfterStage("social", o, "schedule", "Social media creation failed")
  /\ UNCHANGED <<word_count, topic_results, blog_results, schedule_results, fin, fout, now, tasks, heap>>

\* complete_content of run_complete_pipeline: the article with the posts of
\* both platforms added
CompleteContent(blog, social) ==
  Dict(Put(Put(blog.d, "linkedin_content", Get(social, "linkedin_posts", Dict(EmptyD))),
           "twitter_content", Get(social, "twitter_posts", Dict(EmptyD))))

\* (a step 4 that adds the posts to the article record itself)
Schedule_in_place ==
  /\ pc = "schedule"
  /\ \E call \in Calls("scheduler"), dow \in StartDays,
        wf_json \in BOOLEAN, wf_csv \in BOOLEAN :
       LET o == run_scheduling(CompleteContent(blog_results, social_results), dow, call,
                               wf_json, wf_csv)
       IN /\ schedule_results' = o.val
          /\ AfterStage("schedule", o, "compile", "Scheduling failed")
  /\ blog_results' = CompleteContent(blog_results, social_results)
  /\ UNCHANGED <<word_count, topic_results, social_results, fin, fout, now, tasks, heap>>
\* Step 4 of run_complete_pipeline
Schedule ==
  /\ pc = "schedule"
  /\ \E call \in Calls("scheduler"), dow \in StartDays,
        wf_json \in BOOLEAN, wf_csv \in BOOLEAN :
       LET o == run_scheduling(CompleteContent(blog_results, social_results), dow, call,
                               wf_json, wf_csv)
       IN /\ schedule_results' = o.val
          /\ AfterStage("schedule", o, "compile", "Scheduling failed")
  /\ UNCHANGED <<word_count, topic_results, blog_results, social_results, fin, fout, now, tasks, heap>>

\* Step 5 of run_complete_pipeline: compile, save, return
Compile ==
  /\ pc = "compile"
  /\ \E wf_json \in BOOLEAN, wf_txt \in BOOLEAN :
       LET final_campaign == compile_final_campaign(topic_results, blog_results,
                                                    social_results, schedule_results)
           o == save_campaign_files(final_campaign, wf_json, wf_txt)
       IN /\ started' = Append(started, "compile")
          /\ files' = files \cup o.files
          /\ wfailed' = (wfailed \/ o.wfail)
          /\ ret' = IF IsExc(o.val) THEN PipelineExcept(o.val) ELSE final_campaign
  /\ pc' = "done"
  /\ UNCHANGED <<word_count, topic_results, blog_results, social_results,
                 schedule_results, calls, fin, fout, now, tasks, heap>>

Next == Research \/ Write \/ Socialize \/ Schedule \/ Compile

Spec == Init /\ [][Next]_vars

TypeOK == pc \in {"research", "write", "social", "schedule", "compile", "done"}

\* ------------------------------------------------ the agents on their own
\* The pipeline is not running: its variables keep their initial values.
Idle ==
  /\ pc = "idle"
  /\ word_count = 0
  /\ topic_results = Unset
  /\ blog_results = Unset
  /\ social_results = Unset
  /\ schedule_results = Unset
  /\ ret = Unset
  /\ started = <<>>
  /\ calls = <<>>
  /\ files = {}
  /\ wfailed = FALSE
  /\ now = 0
  /\ NewTasks
\* One operation is applied to the arguments in fin; fout is what its caller
\* gets.
Apply(op, result) ==
  /\ pc = "idle"
  /\ fin.op = op
  /\ fout' = result
  /\ pc' = "applied"
  /\ UNCHANGED <<word_count, topic_results, blog_results, social_results,
                 schedule_results, ret, started, calls, files, wfailed, fin, now, tasks, heap>>

\* The arguments the agents are applied to.
TopicInputs == {Topic("T1"), Dict(EmptyD), Str("T1")}
BlogInputs ==
  {write_blog_article(Topic("T1"), 450, call) : call \in Calls("writer")}
    \cup {List(<<>>)}
ArticleInputs ==
  {write_blog_article(Topic("T1"), 450, Reply(<<"{article}">>)),
   write_blog_article(Topic("T1"), 450, Reply(<<PROSE>>))}
ContentInputs ==
  {CompleteContent(blog,
     Dict([linkedin_posts |-> generate_linkedin_posts(blog, linkedin_call),
           twitter_posts |-> generate_twitter_posts(blog, twitter_call)])) :
     blog \in ArticleInputs, linkedin_call \in Calls("linkedin"),
     twitter_call \in Calls("twitter")}
    \cup ArticleInputs \cup {List(<<>>)}
AgentInputs ==
  {[op |-> "research", call |-> call] : call \in Calls("research")}
    \cup {[op |-> "writer", topic_data |-> topic, target_word_count |-> wc, call |-> call] :
            topic \in TopicInputs, wc \in WordCounts, call \in Calls("writer")}
    \cup {[op |-> "linkedin", blog_data |-> blog, call |-> call] :
            blog \in BlogInputs, call \in Calls("linkedin")}
    \cup {[op |-> "twitter", blog_data |-> blog, call |-> call] :
            blog \in BlogInputs, call \in Calls("twitter")}
    \cup {[op |-> "scheduler", content_data |-> content, dow |-> dow, call |-> call] :
            content \in ContentInputs, dow \in StartDays, call \in Calls("scheduler")}

InitAgents == Idle /\ fin \in AgentInputs /\ fout = Unset
ApplyResearch == Apply("research", research_topics(fin.call))
\* The writer on its own; its model call is kept in calls with the prompt.
ApplyWriter ==
  /\ pc = "idle"
  /\ fin.op = "writer"
  /\ fout' = write_blog_article(fin.topic_data, fin.target_word_count, fin.call)
  /\ calls' = IF WriterCallsModel(fin.topic_data)
              THEN Made(<<ModelCall("writer",
                                    WriterPrompt(fin.topic_data, fin.target_word_count),
                                    fin.call)>>)
              ELSE <<>>
  /\ pc' = "applied"
  /\ UNCHANGED <<word_count, topic_results, blog_results, social_results,
                 schedule_results, ret, started, files, wfailed, fin, now, tasks, heap>>
ApplyLinkedIn == Apply("linkedin", generate_linkedin_posts(fin.blog_data, fin.call))
ApplyTwitter == Apply("twitter", generate_twitter_posts(fin.blog_data, fin.call))
ApplyScheduler ==
  Apply("scheduler", generate_posting_schedule(fin.content_data, fin.dow, 7, fin.call))
NextAgents == ApplyResearch \/ ApplyWriter \/ ApplyLinkedIn \/ ApplyTwitter \/ ApplyScheduler
SpecAgents == InitAgents /\ [][NextAgents]_vars

\* ------------------------------------------------ the extraction on its own
ExtractAlphabet == {FENCE, TAG, WS, PROSE, "{research}", "{}"}
Texts == UNION {[1..n -> ExtractAlphabet] : n \in 0..MaxLen}
InitExtract == Idle /\ fin \in {[op |-> "extract", text |-> text] : text \in Texts}
                    /\ fout = Unset
\* The payload the research and writer stages select from the text, and the
\* record research_topics returns for it.
ApplyExtract ==
  Apply("extract", [payload |-> ExtractPayload(fin.text),
                    returned |-> research_topics(Reply(fin.text))])
NextExtract == ApplyExtract
SpecExtract == InitExtract /\ [][NextExtract]_vars

\* ------------------------------------------------ the scheduler's tables
\* The weekdays a run may start on, Monday to Sunday.
Weekdays == 0..(Len(DayNames) - 1)
\* The numbers of posts of one platform.
PostCounts == 0..MaxPosts
\* The blog_schedule values of a schedule: the key is missing, the record is
\* empty, or it is an entry.
BlogEntries ==
  {Unset, Dict(EmptyD),
   Dict([publish_date |-> Date(1), publish_time |-> Str("09:00"),
         day_of_week |-> Str("Tuesday"), rationale |-> Str("why")])}
\* The entries of linkedin_schedule and twitter_schedule: complete ones, or
\* entries that carry their index only.
ScheduleEntries(n, bare) ==
  List([i \in 1..n |->
          IF bare THEN Dict([post_index |-> IntV(i)])
          ELSE SchedEntry(i, i + 1, "10:00", DayName(0, i + 1), "type", "why", "high")])
\* A schedule as json.loads may return it.
ScheduleData(blog, nl, nt, bare) ==
  LET lists == [linkedin_schedule |-> ScheduleEntries(nl, bare),
                twitter_schedule |-> ScheduleEntries(nt, bare)]
  IN Dict(IF blog = Unset THEN lists ELSE Put(lists, "blog_schedule", blog))
SchedulerInputs ==
  {[op |-> "fallback", dow |-> dow, num_linkedin |-> nl, num_twitter |-> nt] :
     dow \in Weekdays, nl \in PostCounts, nt \in PostCounts}
    \cup {[op |-> "csv", blog |-> blog, num_linkedin |-> nl, num_twitter |-> nt,
           schedule_data |-> ScheduleData(blog, nl, nt, bare)] :
            blog \in BlogEntries, nl \in PostCounts, nt \in PostCounts, bare \in BOOLEAN}
InitScheduler == Idle /\ fin \in SchedulerInputs /\ fout = Unset
ApplyFallback ==
  Apply("fallback",
        generate_fallback_schedule(fin.dow, 7, fin.num_linkedin, fin.num_twitter))
ApplyCsv == Apply("csv", generate_csv_data(fin.schedule_data))
NextScheduler == ApplyFallback \/ ApplyCsv
SpecScheduler == InitScheduler /\ [][NextScheduler]_vars

\* ------------------------------------------------- the compile step alone
\* A research result with n topics; with no topics at all it may be the
\* empty record.
NthTopic(i) == Dict(Put(Topic("T").d, "title", Fmt("Topic {}", <<IntV(i)>>)))
ResearchWith(n) ==
  Dict([trending_topics |-> List([i \in 1..n |-> NthTopic(i)]),
        market_insights |-> Str("insights"), recommended_focus |-> Str("focus")])
\* A social result with nl LinkedIn posts and nt tweets.
SocialWith(nl, nt) ==
  Dict([linkedin_posts |->
          Dict([linkedin_posts |->
                  List([i \in 1..nl |->
                          LinkedInPost(Fmt("Post {}", <<IntV(i)>>), 200, "promotional",
                                       "medium", "cta", "tip", List(<<>>))])]),
        twitter_posts |->
          Dict([twitter_posts |->
                  List([i \in 1..nt |->
                          Tweet(Fmt("Tweet {}", <<IntV(i)>>), 100, "single_tweet",
                                List(<<>>), List(<<>>), "medium")])]),
        campaign_summary |->
          Dict([total_linkedin_posts |-> IntV(nl), total_twitter_posts |-> IntV(nt),
                content_themes |-> List(<<>>)])])
CompileInputs ==
  {[op |-> "compile", topic_results |-> topics,
    blog_results |-> write_blog_article(Topic("T1"), 450, Reply(<<"{article}">>)),
    social_results |-> SocialWith(nl, nt),
    schedule_results |-> generate_fallback_schedule(0, 7, nl, nt)] :
     topics \in {ResearchWith(n) : n \in 0..MaxTopics} \cup {Dict(EmptyD)},
     nl \in PostCounts, nt \in PostCounts}
InitCompile == Idle /\ fin \in CompileInputs /\ fout = Unset
ApplyCompile ==
  Apply("compile", compile_final_campaign(fin.topic_results, fin.blog_results,
                                          fin.social_results, fin.schedule_results))
NextCompile == ApplyCompile
SpecCompile == InitCompile /\ [][NextCompile]_vars

\* ------------------------------------------------------- the task manager
\* One ContentMarketingTasks instance and the lists it has created.  A list
\* is an object: tasks and the values get_all_tasks returned refer to it by
\* its position in heap.  started is the history of the calls, each with
\* the value it returned.
Ref(r) == [t |-> "ref", ref |-> r]
Called(op, val) == [op |-> op, ret |-> val]
IsTask(v) == v.t = "task"
\* The Task objects constructed so far.
Constructed == {i \in 1..Len(started) : IsTask(started[i].ret)}
\* Task(...): a new object
NewTask(kind) == [t |-> "task", kind |-> kind, id |-> Cardinality(Constructed) + 1]
InitTasks ==
  /\ pc = "tasks"
  /\ word_count = 0
  /\ topic_results = Unset
  /\ blog_results = Unset
  /\ social_results = Unset
  /\ schedule_results = Unset
  /\ ret = Unset
  /\ started = <<>>
  /\ calls = <<>>
  /\ files = {}
  /\ wfailed = FALSE
  /\ fin = Unset
  /\ fout = Unset
  /\ now = 0
  /\ NewTasks
\* A builder method: it constructs the task, appends it to self.tasks and
\* returns it; when Task(...) rejects its arguments nothing is appended.
Builder(kind) ==
  /\ pc = "tasks"
  /\ Len(started) < MaxCalls
  /\ \E rejected \in BOOLEAN :
       LET task == NewTask(kind)
       IN /\ heap' = IF rejected THEN heap ELSE [heap EXCEPT ![tasks] = Append(@, task)]
          /\ fout' = IF rejected THEN Exc("ValidationError", "Task") ELSE task
  /\ started' = Append(started, Called(kind, fout'))
  /\ UNCHANGED <<pc, word_count, topic_results, blog_results, social_results,
                 schedule_results, ret, calls, files, wfailed, fin, now, tasks>>
topic_research_task == Builder("topic_research_task")
blog_writing_task == Builder("blog_writing_task")
social_media_task == Builder("social_media_task")
scheduling_task == Builder("scheduling_task")
campaign_optimization_task == Builder("campaign_optimization_task")
\* (a clear that empties the list object itself)
clear_tasks_in_place ==
  /\ pc = "tasks"
  /\ Len(started) < MaxCalls
  /\ heap' = [heap EXCEPT ![tasks] = <<>>]
  /\ fout' = None
  /\ started' = Append(started, Called("clear_tasks", None))
  /\ UNCHANGED <<pc, word_count, topic_results, blog_results, social_results,
                 schedule_results, ret, calls, files, wfailed, fin, now, tasks>>
\* self.tasks = []: a new list object
clear_tasks ==
  /\ pc = "tasks"
  /\ Len(started) < MaxCalls
  /\ heap' = Append(heap, <<>>)
  /\ tasks' = Len(heap) + 1
  /\ fout' = None
  /\ started' = Append(started, Called("clear_tasks", None))
  /\ UNCHANGED <<pc, word_count, topic_results, blog_results, social_results,
                 schedule_results, ret, calls, files, wfailed, fin, now>>
\* return self.tasks: the list object, not a copy
get_all_tasks ==
  /\ pc = "tasks"
  /\ Len(started) < MaxCalls
  /\ fout' = Ref(tasks)
  /\ started' = Append(started, Called("get_all_tasks", Ref(tasks)))
  /\ UNCHANGED <<pc, word_count, topic_results, blog_results, social_results,
                 schedule_results, ret, calls, files, wfailed, fin, now, tasks, heap>>
NextTasks ==
  \/ topic_research_task
  \/ blog_writing_task
  \/ social_media_task
  \/ scheduling_task
  \/ campaign_optimization_task
  \/ clear_tasks
  \/ get_all_tasks
SpecTasks == InitTasks /\ [][NextTasks]_vars

\* ------------------------------------------------------ the custom workflow
\* run_custom_workflow keeps its results under research, blog, social and
\* schedule: topic_results, blog_results, social_results, schedule_results
\* hold them here, Unset while the key is missing.
WorkflowResults(research, blog, social, schedule) ==
  LET all == [research |-> research, blog |-> blog, social |-> social,
              schedule |-> schedule]
  IN Dict([k \in {x \in DOMAIN all : all[x] # Unset} |-> all[k]])
\* The except Exception clause of run_custom_workflow
WorkflowExcept(e) == Dict([error |-> Fmt("Custom workflow failed: ", <<Str(e.err)>>)])
\* workflow_config.get('steps', [...]) and workflow_config.get('parameters', {})
WorkflowSteps(workflow_config) ==
  Get(workflow_config, "steps",
      List(<<Str("research"), Str("blog"), Str("social"), Str("schedule")>>))
WorkflowParams(workflow_config) == Get(workflow_config, "parameters", Dict(EmptyD))
\* 'research' in steps, and so on; TypeError when steps is not a container
Selected(workflow_config, step) ==
  LET steps == WorkflowSteps(workflow_config)
  IN IF IsExc(steps) THEN steps
     ELSE IF Contains(steps, step) = "typeerror"
     THEN Exc("TypeError", "argument of type is not iterable")
     ELSE IF Contains(steps, step) = "yes" THEN List(<<Str(step)>>) ELSE None
\* The answers of the model during a custom workflow.
WorkflowCalls(agent) ==
  {Fault(FaultMsg), Reply(<<PROSE>>),
   Reply(<<CASE agent = "research" -> "{research}"
             [] agent = "writer" -> "{article}"
             [] agent = "linkedin" -> "{linkedin}"
             [] agent = "twitter" -> "{twitter}"
             [] OTHER -> "{schedule}">>)}
\* A stage of the workflow has returned: whatever its result, the workflow
\* goes on to the next test.
WorkflowStage(stage, o, next) ==
  /\ started' = Append(started, stage)
  /\ calls' = calls \o Made(o.calls)
  /\ files' = files \cup o.files
  /\ wfailed' = (wfailed \/ o.wfail)
  /\ pc' = next
  /\ ret' = ret
\* A stage is not selected, or the result it needs is missing or empty.
WorkflowSkip(next) ==
  /\ pc' = next
  /\ UNCHANGED <<ret, started, calls, files, wfailed>>
\* An exception left the try block.
WorkflowRaise(e) ==
  /\ pc' = "done"
  /\ ret' = WorkflowExcept(e)
  /\ UNCHANGED <<started, calls, files, wfailed>>

\* if 'research' in steps
WorkflowResearch ==
  /\ pc = "wf_research"
  /\ LET selected == Selected(fin.config.value, "research")
         seed_keywords == Get(WorkflowParams(fin.config.value), "seed_keywords", None)
     IN IF IsExc(selected) THEN WorkflowRaise(selected) /\ topic_results' = topic_results
        ELSE IF ~Truthy(selected) THEN WorkflowSkip("wf_blog") /\ topic_results' = topic_results
        ELSE IF IsExc(seed_keywords)
        THEN WorkflowRaise(seed_keywords) /\ topic_results' = topic_results
        ELSE \E call \in WorkflowCalls("research"), wf \in BOOLEAN :
               \E o \in {run_topic_research(call, wf)} :
                  /\ topic_results' = o.val
                  /\ WorkflowStage("research", o, "wf_blog")
  /\ UNCHANGED <<word_count, blog_results, social_results, schedule_results, fin, fout,
                 now, tasks, heap>>

\* if 'blog' in steps and results.get('research')
WorkflowBlog ==
  /\ pc = "wf_blog"
  /\ LET selected == Selected(fin.config.value, "blog")
         wc == Get(WorkflowParams(fin.config.value), "word_count", IntV(500))
     IN IF IsExc(selected)
        THEN WorkflowRaise(selected) /\ UNCHANGED <<blog_results, word_count>>
        ELSE IF ~(Truthy(selected) /\ Truthy(topic_results))
        THEN WorkflowSkip("wf_social") /\ UNCHANGED <<blog_results, word_count>>
        ELSE IF IsExc(wc) THEN WorkflowRaise(wc) /\ UNCHANGED <<blog_results, word_count>>
        ELSE \E call \in WorkflowCalls("writer"), wf_json \in BOOLEAN, wf_md \in BOOLEAN :
               \E o \in {run_blog_writing(topic_results, wc.n, call, wf_json, wf_md)} :
                  /\ blog_results' = o.val
                  /\ word_count' = wc.n
                  /\ WorkflowStage("blog", o, "wf_social")
  /\ UNCHANGED <<topic_results, social_results, schedule_results, fin, fout,
                 now, tasks, heap>>

\* if 'social' in steps and results.get('blog')
WorkflowSocial ==
  /\ pc = "wf_social"
  /\ LET selected == Selected(fin.config.value, "social")
     IN IF IsExc(selected) THEN WorkflowRaise(selected) /\ social_results' = social_results
        ELSE IF ~(Truthy(selected) /\ Truthy(blog_results))
        THEN WorkflowSkip("wf_schedule") /\ social_results' = social_results
        ELSE \E linkedin_call \in WorkflowCalls("linkedin"),
                twitter_call \in WorkflowCalls("twitter"), wf \in BOOLEAN :
               \E o \in {run_social_media_creation(blog_results, linkedin_call,
                                                  twitter_call, wf)} :
                  /\ social_results' = o.val
                  /\ WorkflowStage("social", o, "wf_schedule")
  /\ UNCHANGED <<word_count, topic_results, blog_results, schedule_results, fin, fout,
                 now, tasks, heap>>

\* content_data of run_custom_workflow: a copy of the article, with the
\* posts added when there is a social result
WorkflowContent(blog, social) ==
  IF Truthy(social) THEN CompleteContent(blog, social) ELSE blog

\* if 'schedule' in steps and results.get('blog'), then return results
WorkflowSchedule ==
  /\ pc = "wf_schedule"
  /\ LET selected == Selected(fin.config.value, "schedule")
         target_audience == Get(WorkflowParams(fin.config.value), "target_audience", None)
     IN IF IsExc(selected)
        THEN WorkflowRaise(selected) /\ schedule_results' = schedule_results
        ELSE IF ~(Truthy(selected) /\ Truthy(blog_results))
        THEN /\ schedule_results' = schedule_results
             /\ pc' = "done"
             /\ ret' = WorkflowResults(topic_results, blog_results, social_results,
                                       schedule_results)
             /\ UNCHANGED <<started, calls, files, wfailed>>
        ELSE IF IsExc(target_audience)
        THEN WorkflowRaise(target_audience) /\ schedule_results' = schedule_results
        ELSE \E call \in WorkflowCalls("scheduler"), dow \in StartDays,
                wf_json \in BOOLEAN, wf_csv \in BOOLEAN :
               \E o \in {run_scheduling(WorkflowContent(blog_results, social_results),
                                       dow, call, wf_json, wf_csv)} :
                  /\ schedule_results' = o.val
                  /\ started' = Append(started, "schedule")
                  /\ calls' = calls \o Made(o.calls)
                  /\ files' = files \cup o.files
                  /\ wfailed' = (wfailed \/ o.wfail)
                  /\ pc' = "done"
                  /\ ret' = WorkflowResults(topic_results, blog_results, social_results,
                                            o.val)
  /\ UNCHANGED <<word_count, topic_results, blog_results, social_results, fin, fout,
                 now, tasks, heap>>

\* -------------------------------------------------------- the command line
\* A file name with the timestamp of its suffix.
StampedName(name, t) == [name |-> name, stamp |-> t]
\* The three paths main prints under Quick access, with the time it reads
\* there.
QuickAccess(t) ==
  {StampedName("blog_article.md", t), StampedName("complete_campaign.json", t),
   StampedName("posting_schedule.csv", t)}
\* len(v); TypeError when v has no length
PyLen(v) ==
  IF IsExc(v) THEN v
  ELSE IF v.t \in {"list", "dict", "str"} THEN None
  ELSE Exc("TypeError", "object has no len()")
\* v.get(k) when c is true, nothing otherwise
GetIf(c, v, k) == IF IsExc(c) THEN c ELSE IF Truthy(c) THEN Get(v, k, None) ELSE None
\* The first exception of the evaluations, or None.
RECURSIVE FirstExc(_)
FirstExc(vals) ==
  IF vals = <<>> THEN None
  ELSE IF IsExc(vals[1]) THEN vals[1]
  ELSE FirstExc(SubSeq(vals, 2, Len(vals)))
\* print_campaign_summary: what it raises, or None
print_campaign_summary(results) ==
  LET topic_research == Get(results, "topic_research", Dict(EmptyD))
      trending_topics == Get(topic_research, "trending_topics", List(<<>>))
      top_title == IF IsExc(trending_topics) THEN trending_topics
                   ELSE IF ~Truthy(trending_topics) THEN None
                   ELSE IF trending_topics.t = "list"
                   THEN Get(trending_topics.l[1], "title", Str("N/A"))
                   ELSE Exc("KeyError", "0")
      blog_data == Get(results, "blog_article", Dict(EmptyD))
      headline == Get(blog_data, "headline", None)
      social_data == Get(results, "social_media", Dict(EmptyD))
      linkedin_count == PyLen(Get(Get(social_data, "linkedin_posts", Dict(EmptyD)),
                                  "linkedin_posts", List(<<>>)))
      twitter_count == PyLen(Get(Get(social_data, "twitter_posts", Dict(EmptyD)),
                                 "twitter_posts", List(<<>>)))
      schedule_data == Get(results, "posting_schedule", Dict(EmptyD))
      campaign_overview == Get(schedule_data, "campaign_overview", Dict(EmptyD))
      start_date == GetIf(campaign_overview, campaign_overview, "start_date")
  IN FirstExc(<<top_title, headline, linkedin_count, twitter_count, start_date>>)

\* args.config: no --config option, or the file it names: missing,
\* unreadable, not JSON, or JSON with the value json.load returns.
ConfigFile(kind, value) == [t |-> "file", kind |-> kind, value |-> value]
StepList(steps) == List([i \in 1..Len(steps) |-> Str(steps[i])])
WorkflowConfigs ==
  {Dict(EmptyD),
   Dict([steps |-> StepList(<<"schedule", "blog", "research">>),
         parameters |-> Dict([word_count |-> IntV(700)])]),
   Dict([steps |-> StepList(<<"research">>)]),
   Dict([steps |-> StepList(<<"social", "blog">>)]),
   Dict([parameters |-> IntV(5)]),
   Dict([steps |-> IntV(5)]),
   List(<<>>)}
JsonConfigs == {ConfigFile("json", config) : config \in WorkflowConfigs}
Configs ==
  {None, ConfigFile("missing", None), ConfigFile("unreadable", None),
   ConfigFile("invalid", None)} \cup JsonConfigs
\* The command line and the environment main runs in.
MainArgs ==
  [api_key : BOOLEAN, keywords_ok : BOOLEAN, word_count : WordCounts, config : Configs]
\* What main leaves behind: the exit code and the Quick access paths.
Exit(code, printed) == [exit |-> code, printed |-> printed]

\* The program has started; no orchestrator exists yet.
Started0 ==
  /\ pc = "main"
  /\ word_count = 0
  /\ topic_results = Unset
  /\ blog_results = Unset
  /\ social_results = Unset
  /\ schedule_results = Unset
  /\ ret = Unset
  /\ started = <<>>
  /\ calls = <<>>
  /\ files = {}
  /\ wfailed = FALSE
  /\ fout = Unset
  /\ now = 0
  /\ tasks = 0
  /\ heap = <<>>
\* main without --config, or with a config file it cannot load: the full
\* pipeline follows, or the exit.
InitMain == Started0 /\ fin \in {a \in MainArgs : a.config \notin JsonConfigs}
\* main with --config: the custom workflow follows, or the exit.
InitWorkflow == Started0 /\ fin \in {a \in MainArgs : a.config # None}

\* main up to the call of the pipeline or of the workflow: the credential,
\* the keywords, the word count, ContentMarketingCrew(), the config file,
\* and the first two statements of run_custom_workflow
MainStart ==
  /\ pc = "main"
  /\ IF ~fin.api_key \/ ~fin.keywords_ok
          \/ ~(300 <= fin.word_count /\ fin.word_count <= 600)
     THEN /\ pc' = "exited"
          /\ fout' = Exit(1, {})
          /\ UNCHANGED <<word_count, ret, tasks, heap>>
     ELSE /\ tasks' = 1
          /\ heap' = <<<<>>>>
          /\ IF fin.config = None
             THEN /\ pc' = "research"
                  /\ word_count' = fin.word_count
                  /\ UNCHANGED <<ret, fout>>
             ELSE IF fin.config.kind # "json"
             THEN /\ pc' = "exited"
                  /\ fout' = Exit(1, {})
                  /\ UNCHANGED <<word_count, ret>>
             ELSE LET e == FirstExc(<<WorkflowSteps(fin.config.value),
                                      WorkflowParams(fin.config.value)>>)
                  IN /\ pc' = IF IsExc(e) THEN "done" ELSE "wf_research"
                     /\ ret' = IF IsExc(e) THEN WorkflowExcept(e) ELSE ret
                     /\ UNCHANGED <<word_count, fout>>
  /\ UNCHANGED <<topic_results, blog_results, social_results, schedule_results,
                 started, calls, files, wfailed, fin, now>>

\* main after the pipeline or the workflow has returned; quiet is the
\* --quiet option
MainFinish ==
  /\ pc = "done"
  /\ \E quiet \in BOOLEAN :
       LET error == Get(ret, "error", None)
           summary == IF quiet THEN None ELSE print_campaign_summary(ret)
       IN fout' = IF IsExc(error) \/ Truthy(error) \/ IsExc(summary) THEN Exit(1, {})
                  ELSE Exit(0, IF quiet THEN {} ELSE QuickAccess(now))
  /\ pc' = "exited"
  /\ UNCHANGED <<word_count, topic_results, blog_results, social_results,
                 schedule_results, ret, started, calls, files, wfailed, fin,
                 now, tasks, heap>>

NextMain ==
  \/ MainStart
  \/ Research
  \/ Write
  \/ Socialize
  \/ Schedule
  \/ Compile
  \/ MainFinish
SpecMain == InitMain /\ [][NextMain]_vars
NextWorkflow ==
  \/ MainStart
  \/ WorkflowResearch
  \/ WorkflowBlog
  \/ WorkflowSocial
  \/ WorkflowSchedule
  \/ MainFinish
SpecWorkflow == InitWorkflow /\ [][NextWorkflow]_vars

\* ---------------------------------------------------- the run on the clock
\* Every stage method reads datetime.now() once, after its agent returned,
\* and puts it into the names of the files it writes;
\* _save_campaign_files does the same, and so does main under Quick access.
\* Between two steps any time may pass.
Stamped(o, t) == [o EXCEPT !.files = {StampedName(f, t) : f \in o.files}]
\* The command lines of a full pipeline run.
ClockArgs == {args \in MainArgs : args.config = None}
InitClock == Started0 /\ fin \in ClockArgs

Tick ==
  /\ pc # "exited"
  /\ now < MaxClock
  /\ now' = now + 1
  /\ UNCHANGED <<pc, word_count, topic_results, blog_results, social_results,
                 schedule_results, ret, started, calls, files, wfailed, fin, fout,
                 tasks, heap>>

\* Step 1 of run_complete_pipeline at the time now
TimedResearch ==
  /\ pc = "research"
  /\ \E call \in WorkflowCalls("research"), wf \in BOOLEAN :
       \E o \in {Stamped(run_topic_research(call, wf), now)} :
          /\ topic_results' = o.val
          /\ AfterStage("research", o, "write", "Topic research failed")
  /\ UNCHANGED <<word_count, blog_results, social_results, schedule_results, fin, fout,
                 now, tasks, heap>>

\* Step 2 of run_complete_pipeline at the time now
TimedWrite ==
  /\ pc = "write"
  /\ \E call \in WorkflowCalls("writer"), wf_json \in BOOLEAN, wf_md \in BOOLEAN :
       \E o \in {Stamped(run_blog_writing(topic_results, word_count, call, wf_json, wf_md),
                        now)} :
          /\ blog_results' = o.val
          /\ AfterStage("blog", o, "social", "Blog writing failed")
  /\ UNCHANGED <<word_count, topic_results, social_results, schedule_results, fin, fout,
                 now, tasks, heap>>

\* Step 3 of run_complete_pipeline at the time now
TimedSocialize ==
  /\ pc = "social"
  /\ \E linkedin_call \in WorkflowCalls("linkedin"),
        twitter_call \in WorkflowCalls("twitter"), wf \in BOOLEAN :
       \E o \in {Stamped(run_social_media_creation(blog_results, linkedin_call,
                                                  twitter_call, wf), now)} :
          /\ social_results' = o.val
          /\ AfterStage("social", o, "schedule", "Social media creation failed")
  /\ UNCHANGED <<word_count, topic_results, blog_results, schedule_results, fin, fout,
                 now, tasks, heap>>

\* Step 4 of run_complete_pipeline at the time now
TimedSchedule ==
  /\ pc = "schedule"
  /\ \E call \in WorkflowCalls("scheduler"), dow \in StartDays,
        wf_json \in BOOLEAN, wf_csv \in BOOLEAN :
       \E o \in {Stamped(run_scheduling(CompleteContent(blog_results, social_results),
                                       dow, call, wf_json, wf_csv), now)} :
          /\ schedule_results' = o.val
          /\ AfterStage("schedule", o, "compile", "Scheduling failed")
  /\ UNCHANGED <<word_count, topic_results, blog_results, social_results, fin, fout,
                 now, tasks, heap>>

\* Step 5 of run_complete_pipeline at the time now
TimedCompile ==
  /\ pc = "compile"
  /\ \E wf_json \in BOOLEAN, wf_txt \in BOOLEAN :
       LET final_campaign == compile_final_campaign(topic_results, blog_results,
                                                    social_results, schedule_results)
           o == Stamped(save_campaign_files(final_campaign, wf_json, wf_txt), now)
       IN /\ started' = Append(started, "compile")
          /\ files' = files \cup o.files
          /\ wfailed' = (wfailed \/ o.wfail)
          /\ ret' = IF IsExc(o.val) THEN PipelineExcept(o.val) ELSE final_campaign
  /\ pc' = "done"
  /\ UNCHANGED <<word_count, topic_results, blog_results, social_results,
                 schedule_results, calls, fin, fout, now, tasks, heap>>

NextClock ==
  \/ MainStart
  \/ Tick
  \/ TimedResearch
  \/ TimedWrite
  \/ TimedSocialize
  \/ TimedSchedule
  \/ TimedCompile
  \/ MainFinish
SpecClock == InitClock /\ [][NextClock]_vars

\* ------------------------------------------------------ pipeline properties
StageOrder == <<"research", "blog", "social", "schedule", "compile">>
\* The local variable that holds the result of a stage.
ResultOf(stage) ==
  CASE stage = "research" -> topic_results
    [] stage = "blog" -> blog_results
    [] stage = "social" -> social_results
    [] OTHER -> schedule_results
HasError(v) == IsDict(v) /\ "error" \in DOMAIN v.d
Completed(v) ==
  /\ IsDict(v)
  /\ "campaign_metadata" \in DOMAIN v.d
  /\ v.d["campaign_metadata"].d["status"] = Str("completed")
ErrorRecord(v) == HasError(v) /\ ~Completed(v)
Faulted == \E i \in 1..Len(calls) : calls[i].kind = "fault"

\* C1: when the result of a stage carries an error key, no later stage is
\* invoked (the stage is the last one started and the run is over) and the
\* pipeline returns an error record, not a completed campaign.
C1_ErrorKeyHalts ==
  \A i \in 1..4 :
    HasError(ResultOf(StageOrder[i])) =>
      /\ pc = "done"
      /\ started = SubSeq(StageOrder, 1, i)
      /\ ErrorRecord(ret)
C1_Witness ==
  /\ HasError(schedule_results)
  /\ pc = "done"
  /\ Len(started) = 4

\* C2: once a model call has raised, in whichever stage, the run does not go
\* on: the scheduling stage and Compile are not reached after it and an
\* error record is returned.
C2_TransportFaultHalts ==
  Faulted => (pc = "done" /\ ErrorRecord(ret))

\* C3: the stages run in the order research, blog, social, schedule,
\* compile, each at most once; a stage is started only when each stage
\* before it returned a result without error; the aggregate campaign is
\* compiled and saved only after all four stages did.
C3_StageOrder ==
  /\ Len(started) <= 5
  /\ started = SubSeq(StageOrder, 1, Len(started))
  /\ \A i \in 1..Len(started) : \A j \in 1..(i - 1) :
       StageCheck(ResultOf(StageOrder[j])) = "ok"
  /\ ("complete_campaign.json" \in files \/ "campaign_summary.txt" \in files
        \/ Completed(ret))
       => (Len(started) = 5 /\ \A j \in 1..4 : StageCheck(ResultOf(StageOrder[j])) = "ok")
C3_Witness ==
  /\ started = StageOrder
  /\ "campaign_summary.txt" \in files
  /\ Completed(ret)

\* C4: run_complete_pipeline hands no exception to its caller: when it is
\* over it has returned a completed campaign or a record with an error key,
\* whatever faulted on the way; and it is over after at most five steps.
C4_NeverRaises ==
  /\ pc = "done" => (~IsExc(ret) /\ (Completed(ret) \/ ErrorRecord(ret)))
  /\ pc # "done" => (ret = Unset /\ Len(started) < 5)
C4_Witness ==
  /\ pc = "done"
  /\ started = StageOrder
  /\ wfailed
  /\ "complete_campaign.json" \notin files
  /\ ErrorRecord(ret)

\* C8: a run in which no model call raises and no file write fails, and in
\* which every response is unparseable or is JSON that is not a key-value
\* record, ends with a completed campaign.
C8_ParseFaultsAbsorbed ==
  (/\ pc = "done"
   /\ ~wfailed
   /\ \A i \in 1..Len(calls) : calls[i].kind \in {"unparseable", "nonrecord"})
    => Completed(ret)

\* --------------------------------------------------------- agent properties
Applied(op) == pc = "applied" /\ fin.op = op
AgentOps == {"research", "writer", "linkedin", "twitter", "scheduler"}
\* The operation gets as far as its model call: the argument it reads its
\* prompt from is a record.
ModelReached ==
  CASE fin.op = "research" -> TRUE
    [] fin.op = "writer" -> IsDict(fin.topic_data)
    [] fin.op = "scheduler" -> IsDict(fin.content_data)
    [] OTHER -> IsDict(fin.blog_data)
\* The three tiers of a stage result.
ErrorTier(op, r) ==
  /\ HasError(r)
  /\ r.d["error"].t = "str"
  /\ r = CASE op = "research" -> ResearchErrorRecord(r.d["error"].s)
           [] op = "writer" -> ArticleErrorRecord(r.d["error"].s)
           [] op = "linkedin" -> LinkedInErrorRecord(r.d["error"].s)
           [] op = "twitter" -> TwitterErrorRecord(r.d["error"].s)
           [] OTHER -> ScheduleErrorRecord(r.d["error"].s)
FallbackTier(op, r) ==
  /\ IsDict(r)
  /\ ~HasError(r)
  /\ CASE op = "research" -> r = ResearchFallback(fin.call.text)
       [] op = "writer" ->
            /\ ArticleKeys \subseteq Keys(r)
            /\ r.d["article_content"] = RawStr(fin.call.text)
            /\ r.d["headline"] = Get(fin.topic_data, "title", Str("Trending Industry Topic"))
       [] op = "linkedin" ->
            /\ LinkedInKeys \subseteq Keys(r)
            /\ Len(r.d["linkedin_posts"].l) = 1
            /\ r.d["linkedin_posts"].l[1].d["post_content"] = RawStr(fin.call.text)
       [] op = "twitter" ->
            /\ TwitterKeys \subseteq Keys(r)
            /\ r.d["thread_posts"] = List(<<>>)
            /\ Len(r.d["twitter_posts"].l) <= 3
            /\ \A i \in 1..Len(r.d["twitter_posts"].l) :
                 r.d["twitter_posts"].l[i].d["retweet_potential"] = Str("medium")
       [] OTHER ->
            /\ ScheduleKeys \subseteq Keys(r)
            /\ r.d["blog_schedule"].d["publish_time"] = Str("09:00")
            /\ r.d["campaign_overview"].d["strategy"] = Str("Standard weekly distribution - manual optimization recommended")
\* The record is the JSON value of the response, with at most the fields
\* the validation fills in or adds changed.
ParsedTier(r) ==
  \E i \in 1..Len(fin.call.text) :
    /\ fin.call.text[i] \in JsonTokens
    /\ LET v == JsonVal(fin.call.text[i])
       IN IF IsDict(v)
          THEN /\ IsDict(r)
               /\ DOMAIN v.d \subseteq DOMAIN r.d
               /\ \A k \in DOMAIN v.d : Truthy(v.d[k]) => r.d[k] = v.d[k]
          ELSE r = v

PostsHave(posts, fields) ==
  posts.t = "list" /\ \A i \in 1..Len(posts.l) : fields \subseteq Keys(posts.l[i])
EntryKeys == {"publish_date", "publish_time", "rationale", "expected_engagement"}
\* The record has every field of the output schema of its stage.
SchemaComplete(op, r) ==
  CASE op = "research" -> ResearchKeys \subseteq Keys(r)
    [] op = "writer" -> ArticleKeys \subseteq Keys(r)
    [] op = "linkedin" ->
         LinkedInKeys \subseteq Keys(r) /\ PostsHave(r.d["linkedin_posts"], LinkedInPostKeys)
    [] op = "twitter" ->
         TwitterKeys \subseteq Keys(r) /\ PostsHave(r.d["twitter_posts"], TwitterPostKeys)
    [] OTHER ->
         /\ ScheduleKeys \subseteq Keys(r)
         /\ OverviewKeys \subseteq Keys(r.d["campaign_overview"])
         /\ PostsHave(r.d["linkedin_schedule"], EntryKeys)
         /\ PostsHave(r.d["twitter_schedule"], EntryKeys)
         /\ PostsHave(r.d["csv_export"], CsvColumns)
\* The response is JSON neither as it is nor inside its fence.
NotJson(text) == IsExc(JsonLoads(text)) /\ IsExc(JsonLoads(ExtractPayload(text)))

\* C6: when the response cannot be parsed as JSON, the record the stage
\* returns has every field of the stage's output schema.
C6_FallbackSchemaComplete ==
  \A op \in AgentOps :
    (Applied(op) /\ ModelReached /\ ~fin.call.fault /\ NotJson(fin.call.text))
      => SchemaComplete(op, fout)
C6_Witness ==
  /\ Applied("twitter")
  /\ ModelReached /\ ~fin.call.fault /\ NotJson(fin.call.text)
  /\ Len(fout.d["twitter_posts"].l) = 2

\* C7: the record a stage returns when its model call raises has the error
\* field and every field of the stage's output schema.
C7_ErrorRecordSchemaComplete ==
  \A op \in AgentOps :
    (Applied(op) /\ ModelReached /\ fin.call.fault)
      => (HasError(fout) /\ SchemaComplete(op, fout))

\* C9: a record carries parsing_note exactly when the stage synthesized it
\* after a parse fault.
C9_ParsingNote ==
  \A op \in AgentOps :
    (Applied(op) /\ ModelReached)
      => (("parsing_note" \in Keys(fout)) <=> (ResponseKind(op, fin.call) = "unparseable"))

\* ---------------------------------------------------- extraction properties
\* The opening fence the precedence selects: the first tagged fence, else
\* the first fence; 0 without a fence.  Its content starts after the tag.
Tagged(text, i) == text[i] = FENCE /\ i < Len(text) /\ text[i + 1] = TAG
Opening(text) ==
  IF \E i \in 1..Len(text) : Tagged(text, i)
  THEN CHOOSE i \in 1..Len(text) : Tagged(text, i) /\ \A j \in 1..(i - 1) : ~Tagged(text, j)
  ELSE IF \E i \in 1..Len(text) : text[i] = FENCE
  THEN CHOOSE i \in 1..Len(text) : text[i] = FENCE /\ \A j \in 1..(i - 1) : text[j] # FENCE
  ELSE 0
ContentStart(text) == Opening(text) + (IF Tagged(text, Opening(text)) THEN 2 ELSE 1)
\* c is the fence that closes the selected block: the next one after its
\* opening.
Closes(text, c) ==
  /\ c \in ContentStart(text)..Len(text)
  /\ text[c] = FENCE
  /\ \A j \in ContentStart(text)..(c - 1) : text[j] # FENCE

\* C10: the payload is the content of the first tagged fence up to the next
\* fence; without a tagged fence that of the first fence up to the next one;
\* without any fence the text itself.  When the selected block is closed
\* and its content is JSON, the record returned is that JSON value, whatever
\* surrounds the block or follows it.
C10_ExtractionPrecedence ==
  Applied("extract") =>
    LET text == fin.text
    IN /\ Opening(text) = 0 => fout.payload = text
       /\ \A c \in 1..Len(text) :
            (Opening(text) # 0 /\ Closes(text, c)) =>
              LET content == SubSeq(text, ContentStart(text), c - 1)
              IN /\ fout.payload = Strip(content)
                 /\ ~IsExc(JsonLoads(content)) => fout.returned = JsonLoads(content)
C10_Witness ==
  /\ Applied("extract")
  /\ Opening(fin.text) > 1
  /\ Tagged(fin.text, Opening(fin.text))
  /\ \E c \in 1..Len(fin.text) : Closes(fin.text, c)
  /\ fout.returned = JsonVal("{research}")

\* ------------------------------------------- extraction in all four stages
\* The response carries a fence and the block the extraction selects from it
\* is the text of a JSON record.
FencedRecord(text) ==
  FindFence(text, 1) # 0 /\ IsDict(JsonLoads(ExtractPayload(text)))

\* C11: whichever stage agent receives it, a JSON record wrapped in a plain
\* or tagged fence is parsed cleanly: the result is the record of the
\* response, not the stage's fallback record.
C11_SameExtractionEverywhere ==
  \A op \in AgentOps :
    (Applied(op) /\ ModelReached /\ ~fin.call.fault /\ FencedRecord(fin.call.text))
      => (ParsedTier(fout) /\ ~FallbackTier(op, fout))

\* The selected block has an opening fence and no fence after it.
Unclosed(text) ==
  /\ Opening(text) # 0
  /\ \A c \in ContentStart(text)..Len(text) : text[c] # FENCE

\* C12: for a response whose fence is opened and never closed, the payload
\* fails to parse and the stage returns its fallback record, never a cleanly
\* parsed one.
C12_UnclosedFenceFallsBack ==
  (Applied("extract") /\ Unclosed(fin.text))
    => /\ IsExc(JsonLoads(fout.payload))
       /\ fout.returned = ResearchFallback(fin.text)

\* ------------------------------------------------------ writer properties
\* The JSON value the writer parses from its response.
WriterParsed == JsonLoads(ExtractPayload(fin.call.text))
\* The requested word count brought into [300, 600].
InRange(n) == IF n < 300 THEN 300 ELSE IF n > 600 THEN 600 ELSE n

\* C13: the word count in the writer's prompt is the request brought into
\* [300, 600]; when the response parses to a record with an integer
\* word_count the result carries that value unchanged, inside the range or
\* not; when the response does not parse the result carries the clamped
\* request.
C13_WordCountPassThrough ==
  (Applied("writer") /\ ModelReached) =>
    /\ Len(calls) = 1
    /\ calls[1].arg.word_count = InRange(fin.target_word_count)
    /\ (~fin.call.fault /\ IsDict(WriterParsed) /\ "word_count" \in Keys(WriterParsed)
          /\ WriterParsed.d["word_count"].t = "int")
         => (IsDict(fout) /\ "word_count" \in Keys(fout)
               /\ fout.d["word_count"] = WriterParsed.d["word_count"])
    /\ (~fin.call.fault /\ IsExc(WriterParsed))
         => fout.d["word_count"] = IntV(InRange(fin.target_word_count))
C13_Witness ==
  /\ Applied("writer")
  /\ fin.target_word_count = 700
  /\ Len(calls) = 1
  /\ calls[1].arg.word_count = 600
  /\ fout.d["word_count"] = IntV(900)

\* C14: when the response parses to a record, an absent or empty headline
\* becomes the topic title, an absent or empty reading_time becomes
\* "N min read" with N = max(1, words // 200), words being the record's
\* word_count or else the clamped request; fields present and non-empty
\* stay as they are; and the result has every field of the Article schema.
C14_BackfillCompletes ==
  (Applied("writer") /\ ModelReached /\ ~fin.call.fault /\ IsDict(WriterParsed)) =>
    LET v == WriterParsed
        title == Get(fin.topic_data, "title", Str("Trending Industry Topic"))
        words == IF "word_count" \in Keys(v) THEN v.d["word_count"].n
                 ELSE InRange(fin.target_word_count)
        N == IF words \div 200 < 1 THEN 1 ELSE words \div 200
    IN /\ IsDict(fout)
       /\ {"headline", "reading_time"} \subseteq Keys(fout)
       /\ ~Truthy(Get(v, "headline", None)) => fout.d["headline"] = title
       /\ ~Truthy(Get(v, "reading_time", None))
            => fout.d["reading_time"] = Fmt("{} min read", <<IntV(N)>>)
       /\ \A k \in Keys(v) : Truthy(v.d[k]) => fout.d[k] = v.d[k]
       /\ ArticleKeys \subseteq Keys(fout)

\* ------------------------------------------------- orchestrator properties
\* The topic candidates of the research result.
Topics == topic_results.d["trending_topics"].l
WriterCalls == {i \in 1..Len(calls) : calls[i].agent = "writer"}

\* C15: the writer's model call is made for the first topic of the research
\* result: its title is the topic_title of the prompt, whatever the number
\* of topics and whatever recommended_focus names, and it is the headline of
\* the writer's fallback record.
C15_FirstTopicOnly ==
  /\ \A i \in WriterCalls :
       /\ Len(Topics) >= 1
       /\ calls[i].arg.topic_title = Topics[1].d["title"]
       /\ (HasError(blog_results) \/ calls[i].kind # "unparseable"
             \/ blog_results.d["headline"] = Topics[1].d["title"])
  /\ ("blog" \in {started[k] : k \in 1..Len(started)}
        /\ Truthy(Get(topic_results, "trending_topics", List(<<>>)))
        /\ IsDict(Topics[1]))
       => Cardinality(WriterCalls) = 1
C15_Witness ==
  /\ WriterCalls # {}
  /\ Len(Topics) = 2
  /\ topic_results.d["recommended_focus"] = Topics[2].d["title"]
  /\ \E i \in WriterCalls :
       calls[i].kind = "unparseable" /\ calls[i].arg.topic_title = Str("T1")
  /\ ~HasError(blog_results)
  /\ blog_results.d["headline"] = Str("T1")

\* The model call of the scheduling stage raised.
SchedulerFaulted ==
  \E i \in 1..Len(calls) : calls[i].agent = "scheduler" /\ calls[i].kind = "fault"

\* C16 as stated: after a fault of the scheduler's model call the pipeline
\* returns a record whose error field is the fault description and which
\* has no posting_schedule key.
C16_ErrorIsFaultDescription ==
  SchedulerFaulted =>
    /\ pc = "done"
    /\ IsDict(ret)
    /\ "posting_schedule" \notin Keys(ret)
    /\ Get(ret, "error", None) = Str(FaultMsg)

\* C16 as amended: after a fault of the scheduler's model call the pipeline
\* returns {error: "Scheduling failed", details: the scheduling stage's
\* result} without a posting_schedule key; details is the scheduler's error
\* record, whose error field is the fault description, or, when writing the
\* schedule file failed as well, the record of that write fault.
C16_SchedulerFaultReported ==
  SchedulerFaulted =>
    /\ pc = "done"
    /\ IsDict(ret)
    /\ "posting_schedule" \notin Keys(ret)
    /\ Keys(ret) = {"error", "details"}
    /\ ret.d["error"] = Str("Scheduling failed")
    /\ ret.d["details"] = schedule_results
    /\ IF wfailed THEN schedule_results = StageError(WriteMsg)
       ELSE /\ schedule_results = ScheduleErrorRecord(FaultMsg)
            /\ schedule_results.d["error"] = Str(FaultMsg)
C16_Witness ==
  /\ SchedulerFaulted
  /\ ~wfailed
  /\ pc = "done"
  /\ ret.d["details"].d["error"] = Str(FaultMsg)

\* The research result is a record without an error key and without a topic
\* candidate: trending_topics is empty or absent.
NoTopics ==
  /\ IsDict(topic_results)
  /\ ~HasError(topic_results)
  /\ ~Truthy(Get(topic_results, "trending_topics", List(<<>>)))
Started(stage) == \E k \in 1..Len(started) : started[k] = stage

\* C17: the writer's model call is made only for a research result without
\* error key and with at least one topic candidate; when the research
\* result has no error key and no topic candidate the writer's model call is
\* not made, neither the social nor the scheduling stage nor Compile runs,
\* and the pipeline ends with an error record.
C17_NoTopicsNoWriting ==
  /\ WriterCalls # {} =>
       (IsDict(topic_results) /\ ~HasError(topic_results) /\ Len(Topics) >= 1)
  /\ NoTopics =>
       /\ WriterCalls = {}
       /\ ~Started("social") /\ ~Started("schedule") /\ ~Started("compile")
       /\ pc \in {"write", "done"}
       /\ pc = "done" => ErrorRecord(ret)
       /\ pc = "write" => started = <<"research">>
C17_Witness ==
  /\ NoTopics
  /\ Truthy(topic_results)
  /\ started = <<"research", "blog">>
  /\ pc = "done"
  /\ ErrorRecord(ret)

\* The text with which a failure record names each stage.
StageMessage == <<"Topic research failed", "Blog writing failed",
                  "Social media creation failed", "Scheduling failed">>
\* The result of stage i violates the transition rule: it is empty, it has
\* an error key or, for research, it has no topic candidate.
Violates(i) ==
  \/ StageCheck(ResultOf(StageOrder[i])) # "ok"
  \/ (i = 1 /\ NoTopics)

\* C18: a run that ends with an error record, in which every model response
\* was a JSON record and no file write failed, returns the failure record of
\* the first stage whose result violated the transition rule: it names that
\* stage and its details are that stage's result.  For a research result
\* without topic candidates that stage is research.
C18_FailureNamesStage ==
  (/\ pc = "done"
   /\ ErrorRecord(ret)
   /\ ~wfailed
   /\ \A k \in 1..Len(calls) : calls[k].kind = "record")
    => \E i \in 1..Len(started) :
         /\ i <= 4
         /\ Violates(i)
         /\ \A j \in 1..(i - 1) : ~Violates(j)
         /\ ret = FailureRecord(StageMessage[i], ResultOf(StageOrder[i]))

\* ----------------------------------------------------- persisted layout
\* The JSON file each stage writes.
StageJson == <<"topic_research.json", "blog_article.json", "social_posts.json",
               "posting_schedule.json">>
CampaignFiles == {"complete_campaign.json", "campaign_summary.txt"}
Layout == {StageJson[i] : i \in 1..4} \cup CampaignFiles
            \cup {"blog_article.md", "posting_schedule.csv"}

\* C19: a failed file write leaves no trace in the data: no stage result
\* and no returned record is the record of a write fault, and a run in which
\* a write failed still ends with whatever it would have returned, never
\* with the write fault as its error.
C19_WriteFaultHarmless ==
  wfailed =>
    /\ \A i \in 1..4 : ResultOf(StageOrder[i]) # StageError(WriteMsg)
    /\ ret # PipelineErrorRecord(WriteMsg)
    /\ \A i \in 1..4 : ret # FailureRecord(StageMessage[i], StageError(WriteMsg))

Passed(i) == Len(started) > i \/ (Len(started) = i /\ pc # "done")

LinkedInEntries == fout.d["linkedin_schedule"].l
TwitterEntries == fout.d["twitter_schedule"].l
AllEntries == <<fout.d["blog_schedule"]>> \o LinkedInEntries \o TwitterEntries
Offset(entry) == entry.d["publish_date"].off

\* C27: the fallback schedule has one linkedin_schedule entry for each of the
\* num_linkedin posts and one twitter_schedule entry for each of the
\* num_twitter posts, and total_posts of its overview is the number of rows
\* of csv_export.
C27_FallbackCounts ==
  Applied("fallback") =>
    /\ Len(LinkedInEntries) = fin.num_linkedin
    /\ Len(TwitterEntries) = fin.num_twitter
    /\ fout.d["campaign_overview"].d["total_posts"] = IntV(Len(fout.d["csv_export"].l))

\* In order of increasing publish date, with post_index 1, 2, ...
Ascending(entries) ==
  \A i \in 1..Len(entries) :
    /\ entries[i].d["post_index"] = IntV(i)
    /\ i > 1 => Offset(entries[i - 1]) < Offset(entries[i])
\* C28: in the fallback schedule for seven days no two entries (blog,
\* LinkedIn, Twitter) share a publish date, every publish date is after
\* start_date and not after end_date, and within each platform post_index
\* counts 1, 2, ... in order of increasing publish date.
C28_FallbackDates ==
  Applied("fallback") =>
    /\ \A i, j \in 1..Len(AllEntries) :
         i # j => AllEntries[i].d["publish_date"] # AllEntries[j].d["publish_date"]
    /\ \A i \in 1..Len(AllEntries) :
         /\ Offset(AllEntries[i]) > fout.d["campaign_overview"].d["start_date"].off
         /\ Offset(AllEntries[i]) <= fout.d["campaign_overview"].d["end_date"].off
    /\ Ascending(LinkedInEntries)
    /\ Ascending(TwitterEntries)
C28_Witness ==
  /\ Applied("fallback")
  /\ Len(LinkedInEntries) = Len(linkedin_days)
  /\ Len(TwitterEntries) = Len(twitter_days)
  /\ fout.d["campaign_overview"].d["end_date"] = Date(7)

\* C29: in the fallback schedule, whatever weekday the run starts on,
\* day_of_week of every entry, and Day_of_Week of every csv_export row, is
\* the weekday of its publish date.
C29_DayOfWeekMatches ==
  Applied("fallback") =>
    /\ \A i \in 1..Len(AllEntries) :
         AllEntries[i].d["day_of_week"] = DayName(fin.dow, Offset(AllEntries[i]))
    /\ \A i \in 1..Len(fout.d["csv_export"].l) :
         LET row == fout.d["csv_export"].l[i]
         IN row.d["Day_of_Week"] = DayName(fin.dow, row.d["Publish_Date"].off)

\* C23: csv_export has one row for the blog entry when blog_schedule is not
\* empty, then one row for each linkedin_schedule entry in order, then one
\* for each twitter_schedule entry in order, and nothing else; every row has
\* exactly the seven columns.
C23_CsvRows ==
  Applied("csv") =>
    LET rows == fout.l
        b == IF Truthy(fin.blog) THEN 1 ELSE 0
        linkedin == fin.schedule_data.d["linkedin_schedule"].l
        twitter == fin.schedule_data.d["twitter_schedule"].l
    IN /\ Len(rows) = b + Len(linkedin) + Len(twitter)
       /\ b = 1 => /\ rows[1].d["Content_Type"] = Str("Blog Post")
                   /\ rows[1].d["Publish_Date"] = fin.blog.d["publish_date"]
       /\ \A i \in 1..Len(linkedin) :
            /\ rows[b + i].d["Platform"] = Str("LinkedIn")
            /\ rows[b + i].d["Content_Type"] = Fmt("LinkedIn Post {}", <<IntV(i)>>)
            /\ rows[b + i].d["Publish_Date"] = Get(linkedin[i], "publish_date", Str(""))
       /\ \A i \in 1..Len(twitter) :
            /\ rows[b + Len(linkedin) + i].d["Platform"] = Str("Twitter/X")
            /\ rows[b + Len(linkedin) + i].d["Content_Type"] = Fmt("Twitter Post {}", <<IntV(i)>>)
            /\ rows[b + Len(linkedin) + i].d["Publish_Date"]
                 = Get(twitter[i], "publish_date", Str(""))
       /\ \A i \in 1..Len(rows) : DOMAIN rows[i].d = CsvColumns
C23_Witness ==
  /\ Applied("csv")
  /\ Truthy(fin.blog)
  /\ fin.num_linkedin = 2
  /\ fin.num_twitter = 0
  /\ Len(fout.l) = 3

\* ------------------------------------------------------ compile properties
InputTopics == Get(fin.topic_results, "trending_topics", List(<<>>)).l
InputLinkedIn == fin.social_results.d["linkedin_posts"].d["linkedin_posts"].l
InputTweets == fin.social_results.d["twitter_posts"].d["twitter_posts"].l
\* C22: the compiled campaign holds the four stage results as they were
\* passed, under topic_research, blog_article, social_media and
\* posting_schedule; its status is completed; total_content_pieces is one
\* plus the LinkedIn posts plus the tweets of the social result; key_topics
\* is the first three research topics, or all of them when there are fewer,
\* in order.
C22_CompiledCampaign ==
  Applied("compile") =>
    /\ fout.d["topic_research"] = fin.topic_results
    /\ fout.d["blog_article"] = fin.blog_results
    /\ fout.d["social_media"] = fin.social_results
    /\ fout.d["posting_schedule"] = fin.schedule_results
    /\ fout.d["campaign_metadata"].d["status"] = Str("completed")
    /\ fout.d["campaign_summary"].d["total_content_pieces"]
         = IntV(1 + Len(InputLinkedIn) + Len(InputTweets))
    /\ LET key_topics == fout.d["campaign_summary"].d["key_topics"].l
           n == IF Len(InputTopics) < 3 THEN Len(InputTopics) ELSE 3
       IN /\ Len(key_topics) = n
          /\ \A i \in 1..n : key_topics[i] = InputTopics[i]
C22_Witness ==
  /\ Applied("compile")
  /\ Len(InputTopics) > 3
  /\ Len(InputLinkedIn) > 0
  /\ Len(InputTweets) > 0
  /\ Len(fout.d["campaign_summary"].d["key_topics"].l) = 3

\* -------------------------------------------------------- frame properties
\* A stage result that has been produced stays as it is.
Kept(v, w) == v # Unset => w = v
\* C26: the research, article and social records are not modified once the
\* stage that produced them has returned: the scheduler's input is a copy of
\* the article with linkedin_content and twitter_content added, and the
\* article of the final campaign is the record the writer returned.
C26_StageResultsKept ==
  [][/\ Kept(topic_results, topic_results')
     /\ Kept(blog_results, blog_results')
     /\ Kept(social_results, social_results')
     /\ Completed(ret') =>
          /\ ret'.d["topic_research"] = topic_results
          /\ ret'.d["blog_article"] = blog_results
          /\ ret'.d["social_media"] = social_results]_vars
\* The scheduler saw the posts (the fallback schedule counted them), and the
\* article of the completed campaign has no linkedin_content.
C26_Witness ==
  /\ Completed(ret)
  /\ schedule_results.d["campaign_overview"].d["strategy"]
       = Str("Standard weekly distribution - manual optimization recommended")
  /\ schedule_results.d["campaign_overview"].d["total_posts"].n > 1
  /\ ret.d["blog_article"] = blog_results
  /\ "linkedin_content" \notin DOMAIN blog_results.d

\* -------------------------------------------------- task manager properties
\* The elements of the list a returned reference refers to.
Deref(heap_, v) == heap_[v.ref]
\* The tasks the builders returned since the last clear_tasks of the
\* history (or since construction), in the order of the calls.
RECURSIVE BuiltSince(_)
BuiltSince(history) ==
  IF history = <<>> THEN <<>>
  ELSE LET last == history[Len(history)]
           before == SubSeq(history, 1, Len(history) - 1)
       IN IF last.op = "clear_tasks" THEN <<>>
          ELSE IF IsTask(last.ret) THEN Append(BuiltSince(before), last.ret)
          ELSE BuiltSince(before)
\* The lists get_all_tasks has returned.
Obtained == {started[i].ret : i \in {j \in 1..Len(started) : started[j].op = "get_all_tasks"}}
\* C30: after any sequence of builder and clear_tasks calls, the list
\* get_all_tasks returns holds exactly the tasks built since the last
\* clear_tasks (or construction), once each, in creation order; a builder
\* call appends exactly the task it returns; clear_tasks leaves every list
\* obtained from get_all_tasks before as it was.
C30_TaskList ==
  [][LET call == started'[Len(started')]
     IN /\ call.op = "get_all_tasks" =>
             /\ Deref(heap', fout') = BuiltSince(started')
             /\ \A i, j \in 1..Len(Deref(heap', fout')) :
                  i # j => Deref(heap', fout')[i] # Deref(heap', fout')[j]
        /\ IsTask(call.ret) =>
             /\ fout' = call.ret
             /\ tasks' = tasks
             /\ heap' = [heap EXCEPT ![tasks] = Append(heap[tasks], call.ret)]
        /\ call.op = "clear_tasks" =>
             \A list \in Obtained : Deref(heap', list) = Deref(heap, list)]_vars
\* A task was built, the list obtained, the list cleared and the list
\* obtained again: the first list still holds the task, the second is empty.
C30_Witness ==
  /\ pc = "tasks"
  /\ Len(started) = 4
  /\ IsTask(started[1].ret)
  /\ started[2].op = "get_all_tasks"
  /\ started[3].op = "clear_tasks"
  /\ started[4].op = "get_all_tasks"
  /\ Deref(heap, started[2].ret) = <<started[1].ret>>
  /\ Deref(heap, fout) = <<>>

\* ---------------------------------------------------- command line properties
\* The stages that ran and whose result carries an error key.
FailedStages == {i \in 1..4 : HasError(ResultOf(StageOrder[i]))}
\* C25: the custom workflow runs the selected stages in the order research,
\* blog, social, schedule, whatever the order of steps; once the result of
\* a stage carries an error key, that stage is the last one started and no
\* further model call is made.
C25_WorkflowStopsAtError ==
  [][fin.config # None =>
       /\ \A i, j \in 1..Len(started') :
            i < j => \E a, b \in 1..4 :
                       a < b /\ started'[i] = StageOrder[a] /\ started'[j] = StageOrder[b]
       /\ FailedStages # {} => (started' = started /\ calls' = calls)]_vars

\* C24: main exits with 1 when the credential is missing, when the word
\* count is outside 300..600 (before the orchestrator is constructed and
\* before any stage, with --config too), when the config file is missing,
\* unreadable or not JSON, and when the result of a stage carries an error,
\* in pipeline mode and in workflow mode; it exits with 0 only when every
\* stage that ran succeeded.
C24_ExitCodes ==
  pc = "exited" =>
    /\ ~fin.api_key => fout.exit = 1
    /\ ~(300 <= fin.word_count /\ fin.word_count <= 600) =>
         (fout.exit = 1 /\ started = <<>> /\ calls = <<>> /\ heap = <<>>)
    /\ (fin.api_key /\ fin.keywords_ok /\ fin.config # None /\ fin.config.kind # "json") =>
         (fout.exit = 1 /\ started = <<>>)
    /\ FailedStages # {} => fout.exit = 1
    /\ fout.exit = 0 => FailedStages = {}

\* ----------------------------------------------------------- clock properties
\* C21: all files of one run carry the same timestamp suffix, whatever time
\* passes between the stages, and the three paths printed under Quick
\* access are paths of files the run has written.
C21_OneTimestamp ==
  /\ \A f, g \in files : f.stamp = g.stamp
  /\ pc = "exited" => fout.printed \subseteq files
====
